---- MODULE Spec2Model ----
(***************************************************************************)
(* Cardori flashcard bot: the spaced-repetition card (FlashcardObject),    *)
(* the users table (Users), the quiz and flashcards commands with their   *)
(* input parsers and filters, the badge check (Badge) and the periodic     *)
(* review sweep (check_cards_for_review).                                  *)
(*                                                                         *)
(* Time is counted in whole minutes.  A FlashcardObject's interval is a    *)
(* Python float while the object lives (int * 0.5, * 0.75, * 3.5); every   *)
(* factor is a multiple of 1/4, so the object's interval is kept in        *)
(* quarter minutes (field interval4) and the arithmetic stays exact.       *)
(* The stored dictionary holds int(interval) (to_dict).                    *)
(***************************************************************************)
EXTENDS Integers, Sequences, FiniteSets, TLC

\* ---------------------------------------------------------------- bounds
NumUsers == 2
NumCardIds == 2
MaxTicks == 2
MaxSessions == 1
MaxQuizzes == 1
MaxAdds == 2
MaxSweeps == 2
MaxViews == 1
MaxRatingSeq == 3
MaxListLen == 3
MaxFilters == 2

\* ------------------------------------------------------ program constants
LEARNING_THRESHOLD == 60
MIN_INTERVAL == 10
MAX_INTERVAL == 43200
INITIAL_INTERVAL == 10
max_capacity == 100
DAY == 1440

Ratings == {"Good", "Okay", "Poor"}

\* FACTORS, each factor times 4 (3 -> 12, 3.5 -> 14, 1 -> 4, 0.5 -> 2, 0.75 -> 3)
FACTORS4 ==
    [Good |-> [Learning |-> 12, Review |-> 14],
     Okay |-> [Learning |-> 4, Review |-> 4],
     Poor |-> [Learning |-> 2, Review |-> 3]]

None == -1
NoLabel == ""

Users == 1..NumUsers
CardIds == 1..NumCardIds
Sessions == 1..MaxSessions

Min(a, b) == IF a <= b THEN a ELSE b
Max(a, b) == IF a >= b THEN a ELSE b

\* ------------------------------------------------------- FlashcardObject

\* FlashcardObject(id, ...).to_dict() of a card made from a search result:
\* the dictionary on_reaction_add hands to add_flashcard_to_set.
NewCard(id) ==
    [id |-> id, front |-> <<"ko", id>>, back |-> <<"en", id>>, label |-> NoLabel,
     to_review |-> FALSE, last_reviewed |-> None, last_reminded |-> None,
     interval |-> INITIAL_INTERVAL, learning_phase |-> TRUE, times_studied |-> 0]

\* from_dict: id, front, back and the spaced_repetition dictionary; a "label"
\* key of the stored dictionary is not read.
from_dict(d) ==
    [id |-> d.id, front |-> d.front, back |-> d.back,
     to_review |-> d.to_review, last_reviewed |-> d.last_reviewed,
     last_reminded |-> d.last_reminded, interval4 |-> 4 * d.interval,
     learning_phase |-> d.learning_phase, times_studied |-> d.times_studied]

\* to_dict: id, front, back, spaced_repetition with interval = int(interval);
\* the dictionary has no "label" key.
to_dict(o) ==
    [id |-> o.id, front |-> o.front, back |-> o.back, label |-> NoLabel,
     to_review |-> o.to_review, last_reviewed |-> o.last_reviewed,
     last_reminded |-> o.last_reminded, interval |-> o.interval4 \div 4,
     learning_phase |-> o.learning_phase, times_studied |-> o.times_studied]

\* invert that moves the back to the front and leaves the back in place
invert_front_only(o) == [o EXCEPT !.front = o.back]

\* invert: temp = front; front = back; back = temp
invert(o) == [o EXCEPT !.front = o.back, !.back = o.front]

\* calculate_points with 2 for 1 as the points of Okay
calculate_points_okay2(rating) ==
    CASE rating = "Good" -> 3
      [] rating = "Okay" -> 2
      [] rating = "Poor" -> 0

\* calculate_points: rating_to_points[rating.emoji]
calculate_points(rating) ==
    CASE rating = "Good" -> 3
      [] rating = "Okay" -> 1
      [] rating = "Poor" -> 0

\* the factor times 4
calculate_factor(o, rating) ==
    LET flashcard_phase == IF o.learning_phase THEN "Learning" ELSE "Review"
    IN  FACTORS4[rating][flashcard_phase]

\* new_interval = int(interval) * factor; interval = min(new_interval, MAX);
\* interval = max(new_interval, MIN): the second assignment starts again from
\* new_interval, so the value of the first is overwritten.
update_interval(o, factor4) ==
    LET new_interval4 == (o.interval4 \div 4) * factor4
        first4 == Min(new_interval4, 4 * MAX_INTERVAL)
        second4 == Max(new_interval4, 4 * MIN_INTERVAL)
    IN  [o EXCEPT !.interval4 = second4]

\* update_learning_phase with the comparison turned round
update_learning_phase_turned(o) ==
    [o EXCEPT !.learning_phase = o.interval4 > 4 * LEARNING_THRESHOLD]

update_learning_phase(o) ==
    [o EXCEPT !.learning_phase = o.interval4 < 4 * LEARNING_THRESHOLD]

\* process_rating without the line that clears to_review
process_rating_keeps_flag(o, rating, t) ==
    LET o1 == update_interval(o, calculate_factor(o, rating))
        o2 == update_learning_phase(o1)
    IN  [o2 EXCEPT !.last_reviewed = t, !.times_studied = o2.times_studied + 1]

\* process_rating at time t: the object afterwards (the points are
\* calculate_points(rating)).
process_rating(o, rating, t) ==
    LET o1 == update_interval(o, calculate_factor(o, rating))
        o2 == update_learning_phase(o1)
    IN  [o2 EXCEPT !.to_review = FALSE, !.last_reviewed = t,
                   !.times_studied = o2.times_studied + 1]

\* ------------------------------------------------------------------ Users

\* dict[key] = value on a dict kept as the sequence of its values in insertion
\* order: an existing key keeps its place, a new key goes to the end.
SetItem(flashcard_set, d) ==
    IF \E i \in 1..Len(flashcard_set) : flashcard_set[i].id = d.id
    THEN [i \in 1..Len(flashcard_set) |->
            IF flashcard_set[i].id = d.id THEN d ELSE flashcard_set[i]]
    ELSE Append(flashcard_set, d)

\* add_flashcard_to_set with > for >= in the capacity test
add_flashcard_to_set_gt(flashcard_set, d) ==
    IF Len(flashcard_set) > max_capacity
    THEN [ok |-> FALSE, flashcard_set |-> flashcard_set]
    ELSE [ok |-> TRUE, flashcard_set |-> SetItem(flashcard_set, d)]

\* add_flashcard_to_set: the return value and the flashcard_set stored afterwards
add_flashcard_to_set(flashcard_set, d) ==
    IF Len(flashcard_set) >= max_capacity
    THEN [ok |-> FALSE, flashcard_set |-> flashcard_set]
    ELSE [ok |-> TRUE, flashcard_set |-> SetItem(flashcard_set, d)]

\* update_flashcard: the flashcard_set stored afterwards
update_flashcard(flashcard_set, d) == SetItem(flashcard_set, d)

\* label_flashcards: list(keys())[i] for each number i of the input, an
\* IndexError (nothing written) when some i is not an index of the list.
label_flashcards(flashcard_set, label, flashcards_to_label) ==
    LET idx == {flashcards_to_label[k] : k \in 1..Len(flashcards_to_label)}
    IN  IF \E i \in idx : i >= Len(flashcard_set)
        THEN [raised |-> TRUE, flashcard_set |-> flashcard_set]
        ELSE [raised |-> FALSE,
              flashcard_set |-> [p \in 1..Len(flashcard_set) |->
                  IF (p - 1) \in idx
                  THEN [flashcard_set[p] EXCEPT !.label = label]
                  ELSE flashcard_set[p]]]

\* delete_flashcards: the cards shown at the given 1-based positions leave the set
delete_flashcards(flashcard_set, shown, flashcards_to_delete) ==
    LET ids == {shown[flashcards_to_delete[k]] : k \in 1..Len(flashcards_to_delete)}
    IN  SelectSeq(flashcard_set, LAMBDA d : d.id \notin ids)

\* FlashcardFilter(["spaced_repetition", "to_review"], True).apply
FilterToReview(cards) == SelectSeq(cards, LAMBDA d : d.to_review)

\* FlashcardFilter(path, value, operation): the filters the commands make
ToReviewFilter == [path |-> "to_review", value |-> TRUE, operation |-> "=="]
LabelFilter(label, operation) == [path |-> "label", value |-> label, operation |-> operation]

\* the card's value at the filter's path, compared with the filter's value
Passes(filter, d) ==
    LET at == IF filter.path = "to_review" THEN d.to_review = filter.value
              ELSE d.label = filter.value
    IN  IF filter.operation = "==" THEN at ELSE ~at

\* FlashcardFilter.apply: the cards of the list that pass, in the list's order
FilterApply(filter, cards) == SelectSeq(cards, LAMBDA d : Passes(filter, d))

\* the loop with only the last filter of the list applied
ApplyAll_last_only(cards, filters) ==
    IF filters = <<>> THEN cards
    ELSE FilterApply(filters[Len(filters)], cards)

\* for filter_obj in filters: user_flashcard_list = filter_obj.apply(user_flashcard_list)
RECURSIVE ApplyAll(_, _)
ApplyAll(cards, filters) ==
    IF filters = <<>> THEN cards
    ELSE ApplyAll(FilterApply(Head(filters), cards), Tail(filters))

\* the filters made of the command's arguments, then the loop over them
ApplyFilters(cards, filters) ==
    ApplyAll(cards, IF "-r" \in filters THEN <<ToReviewFilter>> ELSE <<>>)

\* a sample that may take the same place more than once
Samples_with_replacement(cards, n) ==
    {[k \in 1..n |-> cards[ix[k]]] : ix \in [1..n -> 1..Len(cards)]}

\* random.sample(cards, n): every sequence of n cards at pairwise distinct places
Samples(cards, n) ==
    {[k \in 1..n |-> cards[ix[k]]] :
        ix \in {f \in [1..n -> 1..Len(cards)] :
                   \A a, b \in 1..n : a # b => f[a] # f[b]}}

\* get_random_flashcards: the lists it can return
get_random_flashcards(flashcard_set, num_flashcards, filters) ==
    LET user_flashcard_list == ApplyFilters(flashcard_set, filters)
    IN  Samples(user_flashcard_list, Min(num_flashcards, Len(user_flashcard_list)))

\* add_user: the item put for a user not yet in the table
UserItem(notifications) ==
    [notifications |-> notifications, flashcard_set |-> <<>>,
     study_points |-> 0, flashcards_studied |-> 0, quizzes_completed |-> 0,
     badges |-> <<>>]

\* get_user of a user who has no item in the table
NoItem == [id |-> None]

\* add_user without the test, the item put whatever the table holds
add_user_always(item) == UserItem(TRUE)

\* add_user that keeps the cards and the preferences of an item it finds and
\* puts the progress of a new user
add_user_new_progress(item) ==
    IF item # NoItem
    THEN [item EXCEPT !.study_points = 0, !.flashcards_studied = 0,
                      !.quizzes_completed = 0, !.badges = <<>>]
    ELSE UserItem(TRUE)

\* add_user: the user's item afterwards; put_item only if get_user finds none
add_user(item) == IF item # NoItem THEN item ELSE UserItem(TRUE)

\* get_user(user)["progress"]: the counters and the earned badges of an item
progress(item) ==
    [study_points |-> item.study_points, flashcards_studied |-> item.flashcards_studied,
     quizzes_completed |-> item.quizzes_completed, badges |-> item.badges]

\* update_user_number_progress: progress.field = progress.field + value
update_user_number_progress(item, field, value) ==
    [item EXCEPT ![field] = @ + value]

\* add_badge_to_badges: the badge joins the user's earned badges, which hold
\* every name once, in the order of earning
add_badge_to_badges(item, badge) ==
    IF \E k \in 1..Len(item.badges) : item.badges[k] = badge.name
    THEN item
    ELSE [item EXCEPT !.badges = Append(@, badge.name)]

\* ------------------------------------------------------------------ Badge

\* Bot._badge_data: the badges load_badges_from_json makes of badges.json, one
\* category (a progress counter) per metric
BadgeData ==
    <<[name |-> "First Quiz", metric |-> "quizzes_completed", threshold |-> 1],
      [name |-> "First Card", metric |-> "flashcards_studied", threshold |-> 1]>>

\* check_completion with > for >=
check_completion_gt(badge, user_progress) ==
    (IF badge.metric \in DOMAIN user_progress THEN user_progress[badge.metric] ELSE 0)
        > badge.threshold

\* check_completion: user_progress.get(self.metric, 0) >= self.threshold
check_completion(badge, user_progress) ==
    (IF badge.metric \in DOMAIN user_progress THEN user_progress[badge.metric] ELSE 0)
        >= badge.threshold

\* the test of the loop over Bot._badge_data: not yet among the badges read,
\* and completed
ToAward(badge, user_progress) ==
    /\ \A k \in 1..Len(user_progress.badges) : user_progress.badges[k] # badge.name
    /\ check_completion(badge, user_progress)

\* ------------------------------------------------- check_cards_for_review

\* the due test with > for >=
IsDue_strict(d, current_time) ==
    /\ ~d.to_review
    /\ d.last_reviewed # None
    /\ current_time - d.last_reviewed > d.interval

\* the due test without the skip of a card that has no last_reviewed
IsDue_unrated(d, current_time) ==
    /\ ~d.to_review
    /\ current_time - d.last_reviewed >= d.interval

\* to_review false, a last_reviewed, and the interval elapsed since
IsDue(d, current_time) ==
    /\ ~d.to_review
    /\ d.last_reviewed # None
    /\ current_time - d.last_reviewed >= d.interval

\* the re-reminder test with > for >=
IsRemindAgain_strict(d, current_time) ==
    /\ d.to_review
    /\ d.last_reminded # None
    /\ current_time - d.last_reminded > DAY

IsRemindAgain(d, current_time) ==
    /\ d.to_review
    /\ d.last_reminded # None
    /\ current_time - d.last_reminded >= DAY

\* the flashcard_dict of the scan as the loop body leaves it when it appends it
Reminded(d, current_time) ==
    IF IsDue(d, current_time)
    THEN [d EXCEPT !.to_review = TRUE, !.last_reminded = current_time]
    ELSE [d EXCEPT !.last_reminded = current_time]

\* reminder_packet of one user entry
reminder_packet(flashcard_set, current_time) ==
    LET hits == SelectSeq(flashcard_set,
                    LAMBDA d : IsDue(d, current_time) \/ IsRemindAgain(d, current_time))
    IN  [k \in 1..Len(hits) |-> Reminded(hits[k], current_time)]

\* for flashcard_dict in reminder_packet: update_flashcard(user, flashcard_dict)
RECURSIVE PersistPacket(_, _)
PersistPacket(flashcard_set, packet) ==
    IF packet = <<>> THEN flashcard_set
    ELSE PersistPacket(update_flashcard(flashcard_set, Head(packet)), Tail(packet))

\* the lines of the reminder embed: front word / back word
ReminderLines(packet) == [k \in 1..Len(packet) |-> <<packet[k].front, packet[k].back>>]

\* the next user of the scan, from i on, for whom the loop body reaches
\* create_dm / send: notifications on and a non-empty packet
RECURSIVE NextAwait(_, _, _)
NextAwait(i, packets, notifications) ==
    IF i > NumUsers THEN i
    ELSE IF notifications[i] /\ packets[i] # <<>> THEN i
    ELSE NextAwait(i + 1, packets, notifications)

\* ------------------------------------------ parse_label_input, parse_delete_input

\* A Python string is the sequence of its characters.
DigitChars == <<"0", "1", "2", "3", "4", "5", "6", "7", "8", "9">>

IsDigit(c) == \E k \in 1..10 : DigitChars[k] = c

\* int() of a string of digits
RECURSIVE IntOfDigits(_)
IntOfDigits(chars) ==
    IF chars = <<>> THEN 0
    ELSE 10 * IntOfDigits(SubSeq(chars, 1, Len(chars) - 1))
         + (CHOOSE k \in 0..9 : DigitChars[k + 1] = chars[Len(chars)])

\* lstrip of whitespace
RECURSIVE LStrip(_)
LStrip(chars) ==
    IF chars # <<>> /\ Head(chars) = " " THEN LStrip(Tail(chars)) ELSE chars

\* str.strip(): whitespace off both ends
RECURSIVE Strip(_)
Strip(chars) ==
    LET l == LStrip(chars)
    IN  IF l # <<>> /\ l[Len(l)] = " " THEN Strip(SubSeq(l, 1, Len(l) - 1)) ELSE l

\* int(part): whitespace around the digits is allowed
int(chars) == IntOfDigits(Strip(chars))

\* str.split(sep) for a separator of one character
RECURSIVE Split(_, _)
Split(chars, sep) ==
    LET at == {k \in 1..Len(chars) : chars[k] = sep}
    IN  IF at = {} THEN <<chars>>
        ELSE LET k == CHOOSE k \in at : \A j \in at : k <= j
             IN  <<SubSeq(chars, 1, k - 1)>> \o Split(SubSeq(chars, k + 1, Len(chars)), sep)

\* \d+(-\d+)? on the whole of the characters
IsNumberOrRange(chars) ==
    LET pieces == Split(chars, "-")
    IN  /\ Len(pieces) \in {1, 2}
        /\ \A k \in 1..Len(pieces) :
               /\ pieces[k] # <<>>
               /\ \A j \in 1..Len(pieces[k]) : IsDigit(pieces[k][j])

\* re.match(r'^([^\d]+)(\d+(-\d+)?(,\s*\d+(-\d+)?)*?)$', input_string):
\* group 1 is the characters before the first digit, at least one; group 2,
\* the rest, is numbers and ranges separated by a comma and optional spaces
re_match(input_string) ==
    LET digits == {k \in 1..Len(input_string) : IsDigit(input_string[k])}
        first == IF digits = {} THEN 0 ELSE CHOOSE k \in digits : \A j \in digits : k <= j
        group1 == SubSeq(input_string, 1, first - 1)
        group2 == SubSeq(input_string, first, Len(input_string))
        parts == Split(group2, ",")
    IN  IF first <= 1 THEN [match |-> FALSE, group1 |-> <<>>, group2 |-> <<>>]
        ELSE IF /\ IsNumberOrRange(parts[1])
                /\ \A k \in 2..Len(parts) : IsNumberOrRange(LStrip(parts[k]))
             THEN [match |-> TRUE, group1 |-> group1, group2 |-> group2]
             ELSE [match |-> FALSE, group1 |-> <<>>, group2 |-> <<>>]

\* numbers_str.split(','), each part as the number or the pair of numbers it
\* holds:  int(part), or map(int, part.split('-'))
NumberParts(numbers_str) ==
    LET parts == Split(numbers_str, ",")
    IN  [k \in 1..Len(parts) |->
            LET pieces == Split(parts[k], "-")
            IN  [j \in 1..Len(pieces) |-> int(pieces[j])]]

\* What the user types at a prompt is a comma-separated list of parts, a part
\* being a number <<n>> or a range <<start, end>>.

\* range(start, end) as a list: the end left out
RangeList_exclusive(start, end) ==
    IF start >= end THEN <<>> ELSE [k \in 1..(end - start) |-> start + k - 1]

\* range(start, end + 1) as a list
RangeList(start, end) ==
    IF start > end THEN <<>> ELSE [k \in 1..(end - start + 1) |-> start + k - 1]

\* the loop over the parts with out-of-bounds parts left out instead of
\* ending the parse
ParseParts_skipping(parts, max_num_flashcards) ==
    LET InB(x) == 1 <= x /\ x <= max_num_flashcards
        F[k \in 0..Len(parts)] ==
            IF k = 0 THEN <<>>
            ELSE LET part == parts[k]
                 IN  IF Len(part) = 2
                     THEN IF InB(part[1]) /\ InB(part[2])
                          THEN F[k - 1] \o RangeList(part[1], part[2])
                          ELSE F[k - 1]
                     ELSE IF InB(part[1]) THEN Append(F[k - 1], part[1]) ELSE F[k - 1]
    IN  [ok |-> TRUE, flashcard_numbers |-> F[Len(parts)]]

\* the loop over the parts: the numbers in the order typed, ranges expanded;
\* not ok as soon as a number or a range endpoint is outside
\* 1..max_num_flashcards
ParseParts(parts, max_num_flashcards) ==
    LET InB(x) == 1 <= x /\ x <= max_num_flashcards
        PartOk(part) == \A j \in 1..Len(part) : InB(part[j])
        F[k \in 0..Len(parts)] ==
            IF k = 0 THEN <<>>
            ELSE LET part == parts[k]
                 IN  IF Len(part) = 2
                     THEN F[k - 1] \o RangeList(part[1], part[2])
                     ELSE Append(F[k - 1], part[1])
    IN  IF \A k \in 1..Len(parts) : PartOk(parts[k])
        THEN [ok |-> TRUE, flashcard_numbers |-> F[Len(parts)]]
        ELSE [ok |-> FALSE, flashcard_numbers |-> <<>>]

\* parse_label_input on an input the pattern matches: (label, numbers), or
\* (None, []) with none set
parse_label_input(label, parts, max_num_flashcards) ==
    LET r == ParseParts(parts, max_num_flashcards)
    IN  IF r.ok
        THEN [none |-> FALSE, label |-> label, flashcard_numbers |-> r.flashcard_numbers]
        ELSE [none |-> TRUE, label |-> NoLabel, flashcard_numbers |-> <<>>]

\* parse_label_input on the characters typed
parse_label_input_string(input_string, max_num_flashcards) ==
    LET m == re_match(input_string)
    IN  IF ~m.match
        THEN [none |-> TRUE, label |-> NoLabel, flashcard_numbers |-> <<>>]
        ELSE parse_label_input(Strip(m.group1), NumberParts(m.group2), max_num_flashcards)

\* parse_delete_input: the list of numbers, or the pair (None, []) where the
\* label parser's return statement was kept (tuple set)
parse_delete_input(parts, max_num_flashcards) ==
    LET r == ParseParts(parts, max_num_flashcards)
    IN  IF r.ok
        THEN [tuple |-> FALSE, flashcard_numbers |-> r.flashcard_numbers]
        ELSE [tuple |-> TRUE, flashcard_numbers |-> <<>>]

\* `if flashcards_to_delete:` a non-empty list, or any pair
Truthy(flashcards_to_delete) ==
    flashcards_to_delete.tuple \/ flashcards_to_delete.flashcard_numbers # <<>>

\* ------------------------------------------------------------------ state

VARIABLES
    table,      \* the users table: user -> item (preferences, progress, flashcard_set)
    now,        \* the clock, in minutes
    quiz,       \* the quiz command's invocations: session -> its local variables
    sw,         \* the check_cards_for_review task: its local variables, and
                \* current_loop, the number of its runs so far modulo 2
    fl,         \* the flashcards command's invocation of each user
    out,        \* what the last step sent or returned to the outside (Silent: nothing),
                \* with the label and the number list the user typed at a prompt
    reminded,   \* user, card id -> current_time of the last reminder that named the
                \* card and that no rating of the card followed (None: no such reminder)
    used,       \* how many ticks, adds, quizzes, views and sweeps have been taken,
                \* ratings: user, card id -> ratings processed since the card was added,
                \* and awards: user, badge -> times the badge was awarded
    fc,         \* a stored flashcard dictionary under a sequence of ratings
    fcObj,      \* the FlashcardObject after the last process_rating on fc
    fcPrev,     \* fc before the last rating
    fcRating,   \* the last rating
    fcLen,      \* the number of ratings so far
    call        \* a call of a function on its own: its arguments and, once it
                \* is made, what it returned

sysVars == <<table, now, quiz, sw, fl, out, reminded, used>>
cardVars == <<fc, fcObj, fcPrev, fcRating, fcLen, call>>
vars == <<table, now, quiz, sw, fl, out, reminded, used, fc, fcObj, fcPrev, fcRating, fcLen,
          call>>

NoCall == [fn |-> "none", cards |-> <<>>, filters |-> <<>>, label |-> <<>>, parts |-> <<>>,
           input_string |-> <<>>, max_num_flashcards |-> 0, done |-> TRUE, result |-> <<>>]
NoProgress == progress(UserItem(TRUE))
QuizOff == [pc |-> "off", user |-> 0, list |-> <<>>, index |-> 0,
            points_earned |-> 0, inverted |-> FALSE, ratings |-> <<>>,
            user_progress |-> NoProgress, badge |-> 0]
NoAwards == [u \in Users |-> [b \in 1..Len(BadgeData) |-> 0]]
FlOff == [pc |-> "off", shown |-> <<>>]
NoPackets == [u \in Users |-> <<>>]
SweepIdle == [pc |-> "idle", current_time |-> 0, idx |-> 0, packets |-> NoPackets,
              notifications |-> [u \in Users |-> FALSE], current_loop |-> 0]
Silent == [op |-> "none", user |-> 0, cards |-> <<>>, label |-> NoLabel, input |-> <<>>,
           num_cards |-> 0, filters |-> {}]

Said(op, u, cards) ==
    [op |-> op, user |-> u, cards |-> cards, label |-> NoLabel, input |-> <<>>,
     num_cards |-> 0, filters |-> {}]

\* the answer to a label or delete prompt, with what the user typed
Answered(op, u, label, parts) ==
    [op |-> op, user |-> u, cards |-> <<>>, label |-> label, input |-> parts,
     num_cards |-> 0, filters |-> {}]

\* the answer to the quiz command, with the arguments it was given
Asked(op, u, num_cards, filters) ==
    [op |-> op, user |-> u, cards |-> <<>>, label |-> NoLabel, input |-> <<>>,
     num_cards |-> num_cards, filters |-> filters]

\* the elapsed times the clock is advanced by
TickSteps == {MIN_INTERVAL, DAY}

\* the arguments of the quiz command
QuizSizes == {1, 10}
QuizFilters == {{}, {"-r"}}

Labels == {"animals"}

InitSystem ==
    /\ table \in [Users -> {UserItem(b) : b \in BOOLEAN}]
    /\ now = 0
    /\ quiz = [s \in Sessions |-> QuizOff]
    /\ sw = SweepIdle
    /\ fl = [u \in Users |-> FlOff]
    /\ out = Silent
    /\ reminded = [u \in Users |-> [id \in CardIds |-> None]]
    /\ used = [ticks |-> 0, adds |-> 0, quizzes |-> 0, views |-> 0, sweeps |-> 0,
               awards |-> NoAwards,
               ratings |-> [u \in Users |-> [id \in CardIds |-> 0]]]

InitCardIdle ==
    /\ fc = NewCard(1)
    /\ fcObj = from_dict(NewCard(1))
    /\ fcPrev = NewCard(1)
    /\ fcRating = "none"
    /\ fcLen = 0
    /\ call = NoCall

Init == InitSystem /\ InitCardIdle

\* ---------------------------------------------------------------- actions

Tick(d) ==
    /\ used.ticks < MaxTicks
    /\ now' = now + d
    /\ used' = [used EXCEPT !.ticks = @ + 1]
    /\ out' = Silent
    /\ UNCHANGED <<table, quiz, sw, fl, reminded>>
    /\ UNCHANGED cardVars

\* on_reaction_add on a search result embed
on_reaction_add(u, id) ==
    /\ used.adds < MaxAdds
    /\ LET r == add_flashcard_to_set(table[u].flashcard_set, NewCard(id))
       IN  /\ table' = [table EXCEPT ![u].flashcard_set = r.flashcard_set]
           /\ out' = Said(IF r.ok THEN "added" ELSE "add_refused", u, <<>>)
           /\ used' = [used EXCEPT !.adds = @ + 1,
                                   !.ratings[u][id] = IF r.ok THEN 0 ELSE @]
    /\ UNCHANGED <<now, quiz, sw, fl, reminded>>
    /\ UNCHANGED cardVars

\* a quiz that goes on to its end when there is nothing to study
QuizStart_on_empty(s, u, num_cards, inverted, filters) ==
    /\ quiz[s].pc = "off"
    /\ used.quizzes < MaxQuizzes
    /\ used' = [used EXCEPT !.quizzes = @ + 1]
    /\ \E flashcard_list \in get_random_flashcards(table[u].flashcard_set, num_cards, filters) :
          IF flashcard_list = <<>>
          THEN /\ out' = Asked("no_flashcards", u, num_cards, filters)
               /\ quiz' = [quiz EXCEPT ![s] = [QuizOff EXCEPT !.pc = "ended", !.user = u]]
          ELSE /\ quiz' = [quiz EXCEPT ![s] =
                              [QuizOff EXCEPT !.pc = "front", !.user = u,
                                              !.list = flashcard_list,
                                              !.inverted = inverted]]
               /\ out' = Asked("quiz_started", u, num_cards, filters)
    /\ UNCHANGED <<table, now, sw, fl, reminded>>
    /\ UNCHANGED cardVars

\* quiz, up to the first wait for a reaction; with an empty list the error
\* message is sent and the command returns
QuizStart(s, u, num_cards, inverted, filters) ==
    /\ quiz[s].pc = "off"
    /\ used.quizzes < MaxQuizzes
    /\ used' = [used EXCEPT !.quizzes = @ + 1]
    /\ \E flashcard_list \in get_random_flashcards(table[u].flashcard_set, num_cards, filters) :
          IF flashcard_list = <<>>
          THEN /\ out' = Asked("no_flashcards", u, num_cards, filters)
               /\ quiz' = quiz
          ELSE /\ quiz' = [quiz EXCEPT ![s] =
                              [QuizOff EXCEPT !.pc = "front", !.user = u,
                                              !.list = flashcard_list,
                                              !.inverted = inverted]]
               /\ out' = Asked("quiz_started", u, num_cards, filters)
    /\ UNCHANGED <<table, now, sw, fl, reminded>>
    /\ UNCHANGED cardVars

\* the flip reaction on the front of the card
QuizFlip(s) ==
    /\ quiz[s].pc = "front"
    /\ quiz' = [quiz EXCEPT ![s].pc = "back"]
    /\ out' = Silent
    /\ UNCHANGED <<table, now, sw, fl, reminded, used>>
    /\ UNCHANGED cardVars

\* the progress updates with quizzes_completed raised whatever `completed` is
Progress_always_completed(item, completed, index, points_earned) ==
    LET item1 == update_user_number_progress(item, "quizzes_completed", 1)
        item2 == update_user_number_progress(item1, "flashcards_studied", index)
    IN  update_user_number_progress(item2, "study_points", points_earned)

\* the progress updates after the loop
Progress(item, completed, index, points_earned) ==
    LET item1 == IF completed
                 THEN update_user_number_progress(item, "quizzes_completed", 1)
                 ELSE item
        item2 == update_user_number_progress(item1, "flashcards_studied", index)
    IN  update_user_number_progress(item2, "study_points", points_earned)

\* break that drops what the session has counted so far
QuizBreak_dropping(s) ==
    /\ quiz[s].pc \in {"front", "back"}
    /\ table' = [table EXCEPT ![quiz[s].user] = Progress(@, FALSE, 0, 0)]
    /\ out' = Said("quiz_ended", quiz[s].user, <<>>)
    /\ quiz' = [quiz EXCEPT ![s] = [QuizOff EXCEPT !.pc = "ended", !.user = quiz[s].user]]
    /\ UNCHANGED <<now, sw, fl, reminded, used>>
    /\ UNCHANGED cardVars

\* break: the cancel reaction or the timeout on the front, the timeout on the back
QuizBreak(s) ==
    /\ quiz[s].pc \in {"front", "back"}
    /\ table' = [table EXCEPT ![quiz[s].user] =
                    Progress(@, FALSE, quiz[s].index, quiz[s].points_earned)]
    /\ out' = Said("quiz_ended", quiz[s].user, <<>>)
    /\ quiz' = [quiz EXCEPT ![s] = [QuizOff EXCEPT !.pc = "ended", !.user = quiz[s].user]]
    /\ UNCHANGED <<now, sw, fl, reminded, used>>
    /\ UNCHANGED cardVars

\* a rating reaction after which the same card is shown again
QuizRate_same_card(s, rating) ==
    /\ quiz[s].pc = "back"
    /\ quiz' = [quiz EXCEPT ![s].pc = "front"]
    /\ out' = Silent
    /\ UNCHANGED <<table, now, sw, fl, reminded, used>>
    /\ UNCHANGED cardVars

\* a rating reaction on the back of the card
QuizRate(s, rating) ==
    /\ quiz[s].pc = "back"
    /\ LET q == quiz[s]
           loaded == from_dict(q.list[q.index + 1])
           \* if inverted: invert(), to_dict() for the embeds, invert() again
           flashcard_object == IF q.inverted THEN invert(invert(loaded)) ELSE loaded
           rated == process_rating(flashcard_object, rating, now)
       IN  /\ table' = [table EXCEPT ![q.user].flashcard_set =
                           update_flashcard(@, to_dict(rated))]
           /\ quiz' = [quiz EXCEPT ![s].points_earned = @ + calculate_points(rating),
                                   ![s].index = @ + 1,
                                   ![s].ratings = Append(@, rating),
                                   ![s].pc = IF q.index + 1 = Len(q.list)
                                             THEN "sleep" ELSE "front"]
           /\ reminded' = [reminded EXCEPT ![q.user][rated.id] = None]
           /\ used' = [used EXCEPT !.ratings[q.user][rated.id] = @ + 1]
    /\ out' = Silent
    /\ UNCHANGED <<now, sw, fl>>
    /\ UNCHANGED cardVars

\* progress updates that are written to every item of the table
QuizFinish_everyone(s) ==
    /\ quiz[s].pc = "sleep"
    /\ table' = [u \in Users |->
                    Progress(table[u], TRUE, quiz[s].index, quiz[s].points_earned)]
    /\ out' = Said("quiz_ended", quiz[s].user, <<>>)
    /\ quiz' = [quiz EXCEPT ![s] = [QuizOff EXCEPT !.pc = "ended", !.user = quiz[s].user]]
    /\ UNCHANGED <<now, sw, fl, reminded, used>>
    /\ UNCHANGED cardVars

\* the end of the loop after the last card's rating
QuizFinish(s) ==
    /\ quiz[s].pc = "sleep"
    /\ table' = [table EXCEPT ![quiz[s].user] =
                    Progress(@, TRUE, quiz[s].index, quiz[s].points_earned)]
    /\ out' = Said("quiz_ended", quiz[s].user, <<>>)
    /\ quiz' = [quiz EXCEPT ![s] = [QuizOff EXCEPT !.pc = "ended", !.user = quiz[s].user]]
    /\ UNCHANGED <<now, sw, fl, reminded, used>>
    /\ UNCHANGED cardVars

\* the badge check after the "Flashcard Quiz Ended" message: the progress is
\* read once, then the loop over Bot._badge_data runs to its next award (the
\* badge is added, then the message about it is awaited) or to its end
QuizBadges(s) ==
    /\ quiz[s].pc \in {"ended", "badges"}
    /\ LET q == quiz[s]
           user_progress == IF q.pc = "ended" THEN progress(table[q.user])
                            ELSE q.user_progress
           rest == {k \in (q.badge + 1)..Len(BadgeData) :
                       ToAward(BadgeData[k], user_progress)}
       IN  IF rest = {}
           THEN /\ quiz' = [quiz EXCEPT ![s] = QuizOff]
                /\ out' = Silent
                /\ UNCHANGED <<table, used>>
           ELSE LET k == CHOOSE k \in rest : \A j \in rest : k <= j
                IN  /\ table' = [table EXCEPT ![q.user] =
                                    add_badge_to_badges(@, BadgeData[k])]
                    /\ used' = [used EXCEPT !.awards[q.user][k] = @ + 1]
                    /\ quiz' = [quiz EXCEPT ![s].pc = "badges",
                                            ![s].user_progress = user_progress,
                                            ![s].badge = k]
                    /\ out' = Said("badge_earned", q.user, <<>>)
    /\ UNCHANGED <<now, sw, fl, reminded>>
    /\ UNCHANGED cardVars

\* a failed update_flashcard that has stored the card's new times_studied
\* without its new interval
QuizRateRaise_counted(s, rating) ==
    /\ quiz[s].pc = "back"
    /\ LET q == quiz[s]
           flashcard == q.list[q.index + 1]
       IN  table' = [table EXCEPT ![q.user].flashcard_set =
                        update_flashcard(@, [flashcard EXCEPT !.times_studied = @ + 1])]
    /\ quiz' = [quiz EXCEPT ![s] = QuizOff]
    /\ out' = Said("quiz_raised", quiz[s].user, <<>>)
    /\ UNCHANGED <<now, sw, fl, reminded, used>>
    /\ UNCHANGED cardVars

\* a rating reaction on the back of the card when update_flashcard raises (the
\* store's get_item or update_item fails): the exception is not caught, the
\* command ends there
QuizRateRaise(s, rating) ==
    /\ quiz[s].pc = "back"
    /\ quiz' = [quiz EXCEPT ![s] = QuizOff]
    /\ out' = Said("quiz_raised", quiz[s].user, <<>>)
    /\ UNCHANGED <<table, now, sw, fl, reminded, used>>
    /\ UNCHANGED cardVars

\* on_member_join (and on_ready, for every member) of a user
on_member_join(u) ==
    /\ table' = [table EXCEPT ![u] = add_user(@)]
    /\ out' = Silent
    /\ UNCHANGED <<now, quiz, sw, fl, reminded, used>>
    /\ UNCHANGED cardVars

\* on_ready: the connection is printed, add_user is called for every member of
\* the guild, and the review task is started (its passes are SweepStart)
on_ready ==
    /\ table' = [u \in Users |-> add_user(table[u])]
    /\ out' = Said("ready", 0, <<>>)
    /\ UNCHANGED <<now, quiz, sw, fl, reminded, used>>
    /\ UNCHANGED cardVars

\* check_cards_for_review from its start to the first await (create_dm of the
\* first user with notifications on and a non-empty packet), or to its end when
\* no user has one.  The packets of all users are a function of the scan and of
\* current_time alone; they are kept in sw.packets from the scan on, and stay
\* there after the pass as the record of what the last pass found.
SweepScan ==
    /\ sw.pc = "idle"
    /\ LET packets == [u \in Users |-> reminder_packet(table[u].flashcard_set, now)]
           notifications == [u \in Users |-> table[u].notifications]
           i == NextAwait(1, packets, notifications)
       IN  sw' = [pc |-> IF i > NumUsers THEN "idle" ELSE "await",
                  current_time |-> now, idx |-> IF i > NumUsers THEN 0 ELSE i,
                  packets |-> packets, notifications |-> notifications,
                  current_loop |-> (sw.current_loop + 1) % 2]
    /\ out' = Silent
    /\ UNCHANGED <<table, now, quiz, fl, reminded>>
    /\ UNCHANGED cardVars

\* one of the MaxSweeps runs of the task that the bounded specifications count
SweepStart ==
    /\ used.sweeps < MaxSweeps
    /\ used' = [used EXCEPT !.sweeps = @ + 1]
    /\ SweepScan

\* create_dm and send return: the packet is written card by card, and the loop
\* goes on to the next await or to its end
SweepDeliver ==
    /\ sw.pc = "await"
    /\ LET u == sw.idx
           packet == sw.packets[u]
           i == NextAwait(u + 1, sw.packets, sw.notifications)
       IN  /\ out' = Said("reminder", u, ReminderLines(packet))
           /\ table' = [table EXCEPT ![u].flashcard_set = PersistPacket(@, packet)]
           /\ reminded' = [reminded EXCEPT ![u] =
                  [id \in DOMAIN reminded[u] |->
                      IF \E k \in 1..Len(packet) : packet[k].id = id
                      THEN sw.current_time ELSE reminded[u][id]]]
           /\ sw' = IF i > NumUsers THEN [sw EXCEPT !.pc = "idle", !.idx = 0]
                    ELSE [sw EXCEPT !.idx = i]
    /\ UNCHANGED <<now, quiz, fl, used>>
    /\ UNCHANGED cardVars

\* get_user returns None, or create_dm or send raises: the exception leaves the
\* loop body and ends the task
SweepRaise ==
    /\ sw.pc = "await"
    /\ sw' = [sw EXCEPT !.pc = "failed"]
    /\ out' = Said("sweep_raised", sw.idx, <<>>)
    /\ UNCHANGED <<table, now, quiz, fl, reminded, used>>
    /\ UNCHANGED cardVars

\* flashcards, up to the wait for the label or delete reaction
FlashcardsShow(u, filters) ==
    /\ fl[u].pc = "off"
    /\ used.views < MaxViews
    /\ used' = [used EXCEPT !.views = @ + 1]
    /\ LET user_flashcard_list == ApplyFilters(table[u].flashcard_set, filters)
       IN  IF user_flashcard_list = <<>>
           THEN /\ out' = Said("no_flashcards", u, <<>>)
                /\ fl' = fl
           ELSE /\ out' = Said("flashcard_set", u, <<>>)
                /\ fl' = [fl EXCEPT ![u] =
                            [pc |-> "shown",
                             shown |-> [k \in 1..Len(user_flashcard_list) |->
                                           user_flashcard_list[k].id]]]
    /\ UNCHANGED <<table, now, quiz, sw, reminded>>
    /\ UNCHANGED cardVars

\* no reaction within the timeout, or the cancel reaction on the prompt
FlashcardsQuit(u) ==
    /\ fl[u].pc = "shown"
    /\ fl' = [fl EXCEPT ![u] = FlOff]
    /\ out' = Silent
    /\ UNCHANGED <<table, now, quiz, sw, reminded, used>>
    /\ UNCHANGED cardVars

\* result.pop() on the set `done` that asyncio.wait returned: the finished
\* task, or KeyError when the set is empty
pop(done) ==
    IF done = {} THEN [raised |-> TRUE, task |-> "none"]
    ELSE [raised |-> FALSE, task |-> CHOOSE t \in done : TRUE]

\* the label or the delete reaction, then neither a message nor the cancel
\* reaction within the 60 seconds of wait_for_cancel_reaction_or_message:
\* asyncio.wait returns with no task done, and the handler goes on to
\* result.pop().result()
FlashcardsPromptTimeout(u) ==
    /\ fl[u].pc = "shown"
    /\ LET done == {}
           result == pop(done)
       IN  out' = Said(IF result.raised THEN "prompt_raised" ELSE "prompt_timeout", u, <<>>)
    /\ fl' = [fl EXCEPT ![u] = FlOff]
    /\ UNCHANGED <<table, now, quiz, sw, reminded, used>>
    /\ UNCHANGED cardVars

\* the label reaction and the answer to the label prompt
FlashcardsLabel(u, label, parts) ==
    /\ fl[u].pc = "shown"
    /\ LET parsed == parse_label_input(label, parts, Len(fl[u].shown))
           flashcards_to_label == parsed.flashcard_numbers
       IN  IF ~parsed.none /\ parsed.label # NoLabel /\ flashcards_to_label # <<>>
           THEN LET r == label_flashcards(table[u].flashcard_set, parsed.label,
                                          flashcards_to_label)
                IN  /\ table' = [table EXCEPT ![u].flashcard_set = r.flashcard_set]
                    /\ out' = Answered(IF r.raised THEN "label_raised" ELSE "labeled",
                                       u, label, parts)
           ELSE /\ table' = table
                /\ out' = Answered("label_error", u, label, parts)
    /\ fl' = [fl EXCEPT ![u] = FlOff]
    /\ UNCHANGED <<now, quiz, sw, reminded, used>>
    /\ UNCHANGED cardVars

\* the delete reaction and the answer to the delete prompt.  With the pair
\* (None, []) delete_flashcards is called all the same: it raises, or it finds
\* no position to delete and the success message follows.
FlashcardsDelete(u, parts) ==
    /\ fl[u].pc = "shown"
    /\ LET flashcards_to_delete == parse_delete_input(parts, Len(fl[u].shown))
       IN  IF Truthy(flashcards_to_delete)
           THEN IF flashcards_to_delete.tuple
                THEN /\ table' = table
                     /\ \E op \in {"delete_raised", "deleted"} :
                           out' = Answered(op, u, NoLabel, parts)
                ELSE /\ table' = [table EXCEPT ![u].flashcard_set =
                                    delete_flashcards(@, fl[u].shown,
                                        flashcards_to_delete.flashcard_numbers)]
                     /\ out' = Answered("deleted", u, NoLabel, parts)
           ELSE /\ table' = table
                /\ out' = Answered("delete_error", u, NoLabel, parts)
    /\ fl' = [fl EXCEPT ![u] = FlOff]
    /\ UNCHANGED <<now, quiz, sw, reminded, used>>
    /\ UNCHANGED cardVars

\* ------------------------------------------- one card, rated and swept in turn

\* quiz lines 665 and 750-751 on the stored dictionary fc: from_dict,
\* process_rating, to_dict
RateCard(rating) ==
    /\ fcLen < MaxRatingSeq
    /\ LET rated == process_rating(from_dict(fc), rating, now)
       IN  /\ fcObj' = rated
           /\ fc' = to_dict(rated)
    /\ fcPrev' = fc
    /\ fcRating' = rating
    /\ fcLen' = fcLen + 1
    /\ UNCHANGED call
    /\ UNCHANGED sysVars

\* the sweep's loop body on the stored dictionary fc, written back
SweepCard ==
    /\ IsDue(fc, now) \/ IsRemindAgain(fc, now)
    /\ fc' = Reminded(fc, now)
    /\ fcPrev' = fc
    /\ fcRating' = "none"
    /\ UNCHANGED <<fcObj, fcLen, call>>
    /\ UNCHANGED sysVars

\* stored dictionaries a rating sequence starts from: interval within
\* [MIN_INTERVAL, MAX_INTERVAL], learning_phase as update_learning_phase sets it
StartIntervals == {INITIAL_INTERVAL, 20000, MAX_INTERVAL}

StartCard(interval) ==
    IF interval = INITIAL_INTERVAL THEN NewCard(1)
    ELSE [NewCard(1) EXCEPT !.interval = interval,
                            !.learning_phase = interval < LEARNING_THRESHOLD,
                            !.last_reviewed = 0, !.times_studied = 1]

InitCard ==
    /\ table = [u \in Users |-> UserItem(TRUE)]
    /\ now = 0
    /\ quiz = [s \in Sessions |-> QuizOff]
    /\ sw = SweepIdle
    /\ fl = [u \in Users |-> FlOff]
    /\ out = Silent
    /\ reminded = [u \in Users |-> [id \in CardIds |-> None]]
    /\ used = [ticks |-> 0, adds |-> 0, quizzes |-> 0, views |-> 0, sweeps |-> 0,
               awards |-> NoAwards,
               ratings |-> [u \in Users |-> [id \in CardIds |-> 0]]]
    /\ \E interval \in StartIntervals :
          /\ fc = StartCard(interval)
          /\ fcObj = from_dict(StartCard(interval))
          /\ fcPrev = StartCard(interval)
    /\ fcRating = "none"
    /\ fcLen = 0
    /\ call = NoCall

NextCard ==
    \/ \E r \in Ratings : RateCard(r)
    \/ SweepCard
    \/ \E d \in TickSteps : Tick(d)

SpecCard == InitCard /\ [][NextCard]_vars

\* --------------------------------------------- a user whose set is full

\* the ids of the cards that fill a set besides the cards 1..NumCardIds
FillIds == (NumCardIds + 1)..(NumCardIds + max_capacity - 1)

\* max_capacity cards: card 1, rated Okay once at time 0, and never rated cards
FullSet ==
    [k \in 1..max_capacity |->
        IF k = 1
        THEN [NewCard(1) EXCEPT !.last_reviewed = 0, !.times_studied = 1]
        ELSE NewCard(NumCardIds + k - 1)]

InitFull ==
    /\ table = [u \in Users |->
                  IF u = 1 THEN [UserItem(TRUE) EXCEPT !.flashcard_set = FullSet]
                  ELSE UserItem(TRUE)]
    /\ now = 0
    /\ quiz = [s \in Sessions |-> QuizOff]
    /\ sw = SweepIdle
    /\ fl = [u \in Users |-> FlOff]
    /\ out = Silent
    /\ reminded = [u \in Users |-> [id \in CardIds \cup FillIds |-> None]]
    /\ used = [ticks |-> 0, adds |-> 0, quizzes |-> 0, views |-> 0, sweeps |-> 0,
               awards |-> NoAwards,
               ratings |-> [u \in Users |-> [id \in CardIds \cup FillIds |->
                               IF u = 1 /\ id = 1 THEN 1 ELSE 0]]]
    /\ InitCardIdle

NextFull ==
    \/ \E d \in TickSteps : Tick(d)
    \/ \E u \in Users, id \in CardIds : on_reaction_add(u, id)
    \/ \E s \in Sessions, u \in Users, n \in QuizSizes, i \in BOOLEAN :
          QuizStart(s, u, n, i, {"-r"})
    \/ \E s \in Sessions : QuizFlip(s)
    \/ \E s \in Sessions : QuizBreak(s)
    \/ \E s \in Sessions, r \in Ratings : QuizRate(s, r)
    \/ \E s \in Sessions : QuizFinish(s)
    \/ \E s \in Sessions : QuizBadges(s)
    \/ SweepStart
    \/ SweepDeliver
    \/ SweepRaise
    \/ \E u \in Users : FlashcardsShow(u, {})
    \/ \E u \in Users : FlashcardsQuit(u)
    \/ \E u \in Users, l \in Labels : FlashcardsLabel(u, l, <<<<1>>>>)
    \/ \E u \in Users : FlashcardsDelete(u, <<<<1>>>>)

SpecFull == InitFull /\ [][NextFull]_vars

\* ------------------------------ quiz sessions and sweeps on rated cards

\* card 1 after one rating Okay at time 0
RatedCard == [NewCard(1) EXCEPT !.last_reviewed = 0, !.times_studied = 1]

\* every user holds card 1, rated once
InitRated ==
    /\ table \in [Users -> {[UserItem(b) EXCEPT !.flashcard_set = <<RatedCard>>] :
                               b \in BOOLEAN}]
    /\ now = 0
    /\ quiz = [s \in Sessions |-> QuizOff]
    /\ sw = SweepIdle
    /\ fl = [u \in Users |-> FlOff]
    /\ out = Silent
    /\ reminded = [u \in Users |-> [id \in CardIds |-> None]]
    /\ used = [ticks |-> 0, adds |-> 0, quizzes |-> 0, views |-> 0, sweeps |-> 0,
               awards |-> NoAwards,
               ratings |-> [u \in Users |-> [id \in CardIds |->
                               IF id = 1 THEN 1 ELSE 0]]]
    /\ InitCardIdle

NextRated ==
    \/ \E d \in TickSteps : Tick(d)
    \/ \E s \in Sessions, u \in Users, n \in QuizSizes, i \in BOOLEAN, f \in QuizFilters :
          QuizStart(s, u, n, i, f)
    \/ \E s \in Sessions : QuizFlip(s)
    \/ \E s \in Sessions : QuizBreak(s)
    \/ \E s \in Sessions, r \in Ratings : QuizRate(s, r)
    \/ \E s \in Sessions : QuizFinish(s)
    \/ \E s \in Sessions : QuizBadges(s)
    \/ SweepStart
    \/ SweepDeliver
    \/ SweepRaise

SpecRated == InitRated /\ [][NextRated]_vars

\* -------------------------------------- ready events and joins of known users

\* the quiz command and the sweep on rated cards, with the bot made ready
\* again (a reconnect) and members joining again
NextReady ==
    \/ \E d \in TickSteps : Tick(d)
    \/ \E s \in Sessions, u \in Users, n \in QuizSizes, i \in BOOLEAN, f \in QuizFilters :
          QuizStart(s, u, n, i, f)
    \/ \E s \in Sessions : QuizFlip(s)
    \/ \E s \in Sessions : QuizBreak(s)
    \/ \E s \in Sessions, r \in Ratings : QuizRate(s, r)
    \/ \E s \in Sessions : QuizFinish(s)
    \/ \E s \in Sessions : QuizBadges(s)
    \/ SweepStart
    \/ SweepDeliver
    \/ SweepRaise
    \/ on_ready
    \/ \E u \in Users : on_member_join(u)

SpecReady == InitRated /\ [][NextReady]_vars

\* ------------------------------------- the periodic task running for ever

\* a run of the loop task that is not counted: tasks.loop(minutes=30) starts
\* check_cards_for_review again after every pass
SweepLoop == SweepScan /\ UNCHANGED used

NextLive ==
    \/ \E d \in TickSteps : Tick(d)
    \/ \E s \in Sessions, u \in Users, n \in QuizSizes, i \in BOOLEAN, f \in QuizFilters :
          QuizStart(s, u, n, i, f)
    \/ \E s \in Sessions : QuizFlip(s)
    \/ \E s \in Sessions : QuizBreak(s)
    \/ \E s \in Sessions, r \in Ratings : QuizRate(s, r)
    \/ \E s \in Sessions : QuizFinish(s)
    \/ \E s \in Sessions : QuizBadges(s)
    \/ SweepLoop
    \/ SweepDeliver

\* the clock advances, the task is started again after every pass, and every
\* delivery it waits for returns
SpecLive ==
    /\ InitRated
    /\ [][NextLive]_vars
    /\ WF_vars(\E d \in TickSteps : Tick(d))
    /\ WF_vars(SweepLoop)
    /\ WF_vars(SweepDeliver)

\* ------------------------------------ the flashcards command and its prompts

\* what is typed at the label and delete prompts: a number of the list, its
\* last number, a number past its end, 0, a range, a range that ends past the
\* end, a list with one number past the end, and a range that runs backwards
PartsInputs ==
    {<<<<1>>>>, <<<<NumCardIds>>>>, <<<<NumCardIds + 1>>>>, <<<<0>>>>,
     <<<<1, NumCardIds>>>>, <<<<1, NumCardIds + 1>>>>,
     <<<<1>>, <<NumCardIds + 1>>>>, <<<<NumCardIds, 1>>>>}

\* the arguments of the flashcards command
ListFilters == {{}, {"-r"}}

\* user 1 holds card 1, rated once, and card 2, never rated
InitList ==
    /\ table = [u \in Users |->
                  IF u = 1
                  THEN [UserItem(TRUE) EXCEPT !.flashcard_set = <<RatedCard, NewCard(2)>>]
                  ELSE UserItem(TRUE)]
    /\ now = 0
    /\ quiz = [s \in Sessions |-> QuizOff]
    /\ sw = SweepIdle
    /\ fl = [u \in Users |-> FlOff]
    /\ out = Silent
    /\ reminded = [u \in Users |-> [id \in CardIds |-> None]]
    /\ used = [ticks |-> 0, adds |-> 0, quizzes |-> 0, views |-> 0, sweeps |-> 0,
               awards |-> NoAwards,
               ratings |-> [u \in Users |-> [id \in CardIds |->
                               IF u = 1 /\ id = 1 THEN 1 ELSE 0]]]
    /\ InitCardIdle

NextList ==
    \/ \E d \in TickSteps : Tick(d)
    \/ \E u \in Users, id \in CardIds : on_reaction_add(u, id)
    \/ SweepStart
    \/ SweepDeliver
    \/ SweepRaise
    \/ \E u \in Users, f \in ListFilters : FlashcardsShow(u, f)
    \/ \E u \in Users : FlashcardsQuit(u)
    \/ \E u \in Users, l \in Labels, ps \in PartsInputs : FlashcardsLabel(u, l, ps)
    \/ \E u \in Users, ps \in PartsInputs : FlashcardsDelete(u, ps)
    \/ \E u \in Users : FlashcardsPromptTimeout(u)

SpecList == InitList /\ [][NextList]_vars

\* ------------------------------------------- labelled cards in a quiz

\* the flashcards command's label prompt and the quiz command, on the cards
\* of InitList
NextLabel ==
    \/ \E u \in Users : FlashcardsShow(u, {})
    \/ \E u \in Users : FlashcardsQuit(u)
    \/ \E u \in Users, l \in Labels, ps \in PartsInputs : FlashcardsLabel(u, l, ps)
    \/ \E s \in Sessions, u \in Users, n \in QuizSizes, i \in BOOLEAN :
          QuizStart(s, u, n, i, {})
    \/ \E s \in Sessions : QuizFlip(s)
    \/ \E s \in Sessions : QuizBreak(s)
    \/ \E s \in Sessions, r \in Ratings : QuizRate(s, r)
    \/ \E s \in Sessions : QuizFinish(s)
    \/ \E s \in Sessions : QuizBadges(s)

SpecLabel == InitList /\ [][NextLabel]_vars

\* ------------------------------- quiz sessions side by side, and badges

\* the quiz command's invocations when one runs while another is started
BadgeSessions == 1..(MaxSessions + 1)

\* card 2 after two ratings Good at time 0 (10 -> 30 -> 90): in the Review phase
ReviewCard ==
    [NewCard(2) EXCEPT !.interval = 90, !.learning_phase = FALSE,
                       !.last_reviewed = 0, !.times_studied = 2]

\* RatedCard, found due and flagged by the sweep at time MIN_INTERVAL
DueCard == [RatedCard EXCEPT !.to_review = TRUE, !.last_reminded = MIN_INTERVAL]

\* the time is MIN_INTERVAL; every user holds card 1, rated once at 0 and
\* flagged since, and card 2, rated twice at 0; user 1 has typed !quiz and
\* looks at the front of the first card
InitBadge ==
    /\ table = [u \in Users |->
                  [UserItem(TRUE) EXCEPT !.flashcard_set = <<DueCard, ReviewCard>>]]
    /\ now = MIN_INTERVAL
    /\ quiz = [s \in BadgeSessions |->
                 IF s = 1 THEN QuizOff
                 ELSE [QuizOff EXCEPT !.pc = "front", !.user = 1,
                                      !.list = <<DueCard, ReviewCard>>]]
    /\ sw = SweepIdle
    /\ fl = [u \in Users |-> FlOff]
    /\ out = Silent
    /\ reminded = [u \in Users |-> [id \in CardIds |->
                      IF id = 1 THEN MIN_INTERVAL ELSE None]]
    /\ used = [ticks |-> 0, adds |-> 0, quizzes |-> 0, views |-> 0, sweeps |-> 0,
               awards |-> NoAwards,
               ratings |-> [u \in Users |-> [id \in CardIds |->
                               IF id = 1 THEN 1 ELSE 2]]]
    /\ InitCardIdle

NextBadge ==
    \/ \E s \in BadgeSessions, u \in Users, n \in QuizSizes, f \in QuizFilters :
          QuizStart(s, u, n, FALSE, f)
    \/ \E s \in BadgeSessions : QuizFlip(s)
    \/ \E s \in BadgeSessions : QuizBreak(s)
    \/ \E s \in BadgeSessions, r \in Ratings : QuizRate(s, r)
    \/ \E s \in BadgeSessions, r \in Ratings : QuizRateRaise(s, r)
    \/ \E s \in BadgeSessions : QuizFinish(s)
    \/ \E s \in BadgeSessions : QuizBadges(s)
    \/ \E u \in Users : on_member_join(u)

SpecBadge == InitBadge /\ [][NextBadge]_vars

\* ------------------------------------------- quiz sessions running on

\* the next step of quiz command s: each wait for a reaction returns with the
\* reaction or, after its 60 seconds, with the timeout; each sleep and each
\* send returns
QuizStep(s) ==
    \/ QuizFlip(s)
    \/ QuizBreak(s)
    \/ \E r \in Ratings : QuizRate(s, r)
    \/ \E r \in Ratings : QuizRateRaise(s, r)
    \/ QuizFinish(s)
    \/ QuizBadges(s)

SpecSession ==
    /\ InitBadge
    /\ [][NextBadge]_vars
    /\ \A s \in BadgeSessions : WF_vars(QuizStep(s))

\* ------------------------------------ the filter loop and the label parser

\* card id as a list's card: flagged or not, labelled "animals" or not
ListCards(id) ==
    {[NewCard(id) EXCEPT !.to_review = r, !.label = l] :
        r \in BOOLEAN, l \in {NoLabel, "animals"}}

\* the lists of up to MaxListLen cards, ids 1, 2, ... in this order
CardLists ==
    UNION {{cards \in [1..n -> UNION {ListCards(id) : id \in 1..n}] :
               \A k \in 1..n : cards[k].id = k} : n \in 0..MaxListLen}

\* the filters of -r, (animals) and (!animals)
FilterChoices ==
    {ToReviewFilter, LabelFilter("animals", "=="), LabelFilter("animals", "!=")}

\* the lists of up to MaxFilters filters
FilterLists == UNION {[1..n -> FilterChoices] : n \in 0..MaxFilters}

\* the decimal digits of a number
RECURSIVE Decimal(_)
Decimal(n) ==
    IF n < 10 THEN <<DigitChars[n + 1]>>
    ELSE Decimal(n \div 10) \o <<DigitChars[(n % 10) + 1]>>

\* a number as typed, or a range as start-end
TypedPart(part) ==
    IF Len(part) = 2 THEN Decimal(part[1]) \o <<"-">> \o Decimal(part[2])
    ELSE Decimal(part[1])

\* the label, a space, and the parts with the separator between them
RECURSIVE TypedParts(_, _)
TypedParts(parts, sep) ==
    IF Len(parts) = 1 THEN TypedPart(parts[1])
    ELSE TypedPart(parts[1]) \o sep \o TypedParts(Tail(parts), sep)

Typed(label, parts, sep) == label \o <<" ">> \o TypedParts(parts, sep)

\* the labels typed: animals, k-pop
LabelTexts == {<<"a", "n", "i", "m", "a", "l", "s">>, <<"k", "-", "p", "o", "p">>}

\* the numbers and ranges typed after the label
LabelParts ==
    {<<<<4>>, <<15>>, <<20>>, <<6, 13>>>>, <<<<25>>>>, <<<<1>>>>, <<<<2>>>>, <<<<20>>>>,
     <<<<21>>>>, <<<<0>>>>, <<<<1, 2>>>>, <<<<2, 1>>>>, <<<<3, 3>>>>, <<<<19, 21>>>>,
     <<<<1>>, <<21>>>>, <<<<6, 13>>, <<4>>>>, <<<<10, 12>>, <<11, 13>>>>}

Separators == {<<",">>, <<",", " ">>}

\* the numbers of cards shown when the label is typed
ListSizes == {2, 20}

\* the calls to make
CallInputs ==
    {[NoCall EXCEPT !.fn = "filter", !.cards = cards, !.filters = filters, !.done = FALSE] :
        cards \in CardLists, filters \in FilterLists}
    \cup
    {[NoCall EXCEPT !.fn = "parse_label_input", !.label = label, !.parts = parts,
                    !.input_string = Typed(label, parts, sep),
                    !.max_num_flashcards = n, !.done = FALSE] :
        label \in LabelTexts, parts \in LabelParts, sep \in Separators, n \in ListSizes}

InitCall ==
    /\ table = [u \in Users |-> UserItem(TRUE)]
    /\ now = 0
    /\ quiz = [s \in Sessions |-> QuizOff]
    /\ sw = SweepIdle
    /\ fl = [u \in Users |-> FlOff]
    /\ out = Silent
    /\ reminded = [u \in Users |-> [id \in CardIds |-> None]]
    /\ used = [ticks |-> 0, adds |-> 0, quizzes |-> 0, views |-> 0, sweeps |-> 0,
               awards |-> NoAwards,
               ratings |-> [u \in Users |-> [id \in CardIds |-> 0]]]
    /\ fc = NewCard(1)
    /\ fcObj = from_dict(NewCard(1))
    /\ fcPrev = NewCard(1)
    /\ fcRating = "none"
    /\ fcLen = 0
    /\ call \in CallInputs

\* the loop over the filters (flashcards, get_random_flashcards) on a list
CallFilters ==
    /\ call.fn = "filter"
    /\ ~call.done
    /\ call' = [call EXCEPT !.done = TRUE, !.result = ApplyAll(call.cards, call.filters)]
    /\ UNCHANGED <<fc, fcObj, fcPrev, fcRating, fcLen>>
    /\ UNCHANGED sysVars

\* parse_label_input on what was typed
CallParseLabel ==
    /\ call.fn = "parse_label_input"
    /\ ~call.done
    /\ call' = [call EXCEPT !.done = TRUE,
                            !.result = parse_label_input_string(call.input_string,
                                                                call.max_num_flashcards)]
    /\ UNCHANGED <<fc, fcObj, fcPrev, fcRating, fcLen>>
    /\ UNCHANGED sysVars

NextCall == CallFilters \/ CallParseLabel

SpecCall == InitCall /\ [][NextCall]_vars

\* ------------------------------------------------ ratings and the sweep

Next ==
    \/ \E d \in TickSteps : Tick(d)
    \/ \E u \in Users, id \in CardIds : on_reaction_add(u, id)
    \/ \E s \in Sessions, u \in Users, n \in QuizSizes, i \in BOOLEAN, f \in QuizFilters :
          QuizStart(s, u, n, i, f)
    \/ \E s \in Sessions : QuizFlip(s)
    \/ \E s \in Sessions : QuizBreak(s)
    \/ \E s \in Sessions, r \in Ratings : QuizRate(s, r)
    \/ \E s \in Sessions : QuizFinish(s)
    \/ \E s \in Sessions : QuizBadges(s)
    \/ SweepStart
    \/ SweepDeliver
    \/ SweepRaise
    \/ \E u \in Users : on_member_join(u)

Spec == Init /\ [][Next]_vars

\* ----------------------------------------------------------------- claims

Clamp(x, lo, hi) == IF x < lo THEN lo ELSE IF x > hi THEN hi ELSE x

\* the card of a flashcard_set with the given id, as a set (empty: no such card)
CardsWithId(flashcard_set, id) ==
    {flashcard_set[k] : k \in {j \in 1..Len(flashcard_set) : flashcard_set[j].id = id}}

\* C1: after every process_rating of a rating sequence from a valid card the
\* card's interval lies within MIN_INTERVAL .. MAX_INTERVAL.
C1_IntervalBounds ==
    fcLen > 0 =>
        /\ MIN_INTERVAL <= fc.interval /\ fc.interval <= MAX_INTERVAL
        /\ 4 * MIN_INTERVAL <= fcObj.interval4 /\ fcObj.interval4 <= 4 * MAX_INTERVAL

\* C2: at creation, after every rating and after every sweep of the card,
\* learning_phase equals (interval < LEARNING_THRESHOLD), in the stored
\* dictionary and in the object process_rating worked on.
C2_PhaseConsistent ==
    /\ fc.learning_phase = (fc.interval < LEARNING_THRESHOLD)
    /\ fcObj.learning_phase = (fcObj.interval4 < 4 * LEARNING_THRESHOLD)

\* C2 witness: a Good rating has taken the card from Learning to Review.
C2_Witness_Review ==
    /\ fcRating = "Good" /\ fcPrev.learning_phase /\ ~fc.learning_phase
    /\ ~fcObj.learning_phase

\* C3: process_rating leaves interval = clamp(interval * factor, MIN_INTERVAL,
\* MAX_INTERVAL) with the factor of the rating and of the phase before it.
C3_IntervalIsClamp ==
    fcRating \in Ratings =>
        LET phase == IF fcPrev.learning_phase THEN "Learning" ELSE "Review"
        IN  fcObj.interval4 =
               Clamp(fcPrev.interval * FACTORS4[fcRating][phase],
                     4 * MIN_INTERVAL, 4 * MAX_INTERVAL)

\* C4: the step that processes a rating leaves the card with to_review false,
\* last_reviewed = the time of the rating, times_studied one more than before.
C4_RatingEffects ==
    [][fcLen' = fcLen + 1 =>
          /\ ~fc'.to_review
          /\ fc'.last_reviewed = now
          /\ fc'.times_studied = fc.times_studied + 1
          /\ fc' = to_dict(fcObj')]_vars

\* C4 witness: a card the sweep had flagged has been rated a second time.
C4_Witness_FlaggedRated ==
    /\ fcRating \in Ratings /\ fcPrev.to_review /\ ~fc.to_review
    /\ fc.times_studied = 2 /\ fc.last_reviewed = now /\ now > 0

\* C5: an add to a set that holds max_capacity cards returns false and leaves
\* the stored set as it was.
C5_FullAddRefused ==
    [][(used'.adds = used.adds + 1
          /\ Len(table[out'.user].flashcard_set) = max_capacity) =>
          /\ out'.op = "add_refused"
          /\ table' = table]_vars

\* C5 witness: an add has been refused on a set of max_capacity cards.
C5_Witness_Refused ==
    /\ out.op = "add_refused"
    /\ Len(table[out.user].flashcard_set) = max_capacity

\* C6: every user's stored set holds at most max_capacity cards.
C6_AtMostCapacity ==
    \A u \in Users : Len(table[u].flashcard_set) <= max_capacity

\* the step is a start of check_cards_for_review
SweepStarts == used'.sweeps = used.sweeps + 1

\* the packet of user u holds card id, flagged for review at time t
FlaggedIn(packets, u, id, t) ==
    \E k \in 1..Len(packets[u]) :
        /\ packets[u][k].id = id
        /\ packets[u][k].to_review
        /\ packets[u][k].last_reminded = t

\* C7: a sweep at time now flags a card with to_review false and a last_reviewed
\* (to_review true, last_reminded = now, in the user's packet) exactly when
\* now - last_reviewed >= interval.  (When no user is to be notified the sweep
\* ends with its start: then no user with notifications on has such a card due.)
C7_FlaggedIffDue ==
    [][SweepStarts =>
          \A u \in Users : \A k \in 1..Len(table[u].flashcard_set) :
              LET c == table[u].flashcard_set[k]
                  due == now - c.last_reviewed >= c.interval
              IN  (~c.to_review /\ c.last_reviewed # None) =>
                     IF sw'.pc = "await"
                     THEN FlaggedIn(sw'.packets, u, c.id, now) <=> due
                     ELSE table[u].notifications => ~due]_vars

\* C7 witness: a sweep has flagged a card at now = last_reviewed + interval.
C7_Witness_Boundary ==
    /\ sw.pc = "await"
    /\ \E u \in Users : \E k \in 1..Len(sw.packets[u]) :
          LET c == sw.packets[u][k]
          IN  /\ c.to_review /\ c.last_reminded = sw.current_time
              /\ c.last_reviewed # None
              /\ sw.current_time = c.last_reviewed + c.interval

\* C8: a sweep at time now puts a card with to_review true into the packet again,
\* with last_reminded = now, exactly when now - last_reminded >= 1 day; and a
\* reminder names a card that an earlier reminder named, with no rating of the
\* card in between, only when the two sweeps' times are at least 1 day apart.
C8_RemindAgainAfterDay ==
    [][/\ SweepStarts =>
             \A u \in Users : \A k \in 1..Len(table[u].flashcard_set) :
                 LET c == table[u].flashcard_set[k]
                     again == c.last_reminded # None /\ now - c.last_reminded >= DAY
                 IN  c.to_review =>
                        IF sw'.pc = "await"
                        THEN FlaggedIn(sw'.packets, u, c.id, now) <=> again
                        ELSE table[u].notifications => ~again
       /\ out'.op = "reminder" =>
             \A k \in 1..Len(sw.packets[out'.user]) :
                 LET before == reminded[out'.user][sw.packets[out'.user][k].id]
                 IN  before # None => sw.current_time - before >= DAY]_vars

\* C8 witness: a card is in the packet exactly one day after the reminder
\* that named it before.
C8_Witness_DayLater ==
    /\ sw.pc = "await"
    /\ \E k \in 1..Len(sw.packets[sw.idx]) :
          LET before == reminded[sw.idx][sw.packets[sw.idx][k].id]
          IN  before # None /\ sw.current_time - before = DAY

\* C9: for a user with notifications off, a sweep leaves every due card stored
\* with to_review true and last_reminded = now, and sends the user no reminder.
C9_DisabledUserStillFlagged ==
    [][(SweepStarts /\ sw'.pc = "idle") =>
          \A u \in Users : ~table[u].notifications =>
              /\ out'.op # "reminder"
              /\ \A k \in 1..Len(table[u].flashcard_set) :
                    LET c == table[u].flashcard_set[k]
                    IN  IsDue(c, now) =>
                           \E d \in CardsWithId(table'[u].flashcard_set, c.id) :
                               d.to_review /\ d.last_reminded = now]_vars

\* C10: in a sweep, a user with notifications on and a non-empty packet gets
\* one reminder, which lists the packet's cards, and the packet's cards are
\* stored with their new to_review and last_reminded; the sweep then goes on to
\* a later user or ends, and no other reminder is sent.
C10_OneReminderPerPacket ==
    [][/\ (sw.pc = "await" /\ sw' # sw) =>
             /\ out' = Said("reminder", sw.idx, ReminderLines(sw.packets[sw.idx]))
             /\ sw'.pc = "idle" \/ (sw'.pc = "await" /\ sw'.idx > sw.idx)
             /\ \A k \in 1..Len(sw.packets[sw.idx]) :
                   LET c == sw.packets[sw.idx][k]
                   IN  \E d \in CardsWithId(table'[sw.idx].flashcard_set, c.id) :
                          d.to_review = c.to_review /\ d.last_reminded = c.last_reminded
       /\ out'.op = "reminder" =>
             /\ sw.pc = "await" /\ out'.user = sw.idx
             /\ sw.notifications[sw.idx] /\ sw.packets[sw.idx] # <<>>]_vars

\* the ids of the cards of a packet
PacketIds(packet) == {packet[k].id : k \in 1..Len(packet)}

\* C11: a sweep that runs at the instant of the sweep before it (same
\* current_time) puts no card into a user's packet that the sweep before it put
\* into that user's packet, and so writes nothing the first had not written.
C11_SecondSweepFindsNothing ==
    [][(SweepStarts /\ used.sweeps > 0 /\ sw.pc = "idle" /\ sw.current_time = now) =>
          \A u \in Users : PacketIds(sw'.packets[u]) \cap PacketIds(sw.packets[u]) = {}]_vars

\* C12: when the delivery of a user's reminder fails, the packet's cards are
\* nevertheless stored with the to_review and last_reminded the sweep gave them.
C12_FailedDeliveryStillStored ==
    [][out'.op = "sweep_raised" =>
          \A k \in 1..Len(sw.packets[sw.idx]) :
              LET c == sw.packets[sw.idx][k]
              IN  \E d \in CardsWithId(table'[sw.idx].flashcard_set, c.id) :
                     d.to_review = c.to_review /\ d.last_reminded = c.last_reminded]_vars

\* the step is a rating processed by quiz session s
RatingBy(s) == quiz[s].pc = "back" /\ quiz'[s].index = quiz[s].index + 1

\* C13: a step that writes a card derived from an earlier read of the user's set
\* (the sweep's packet from its scan, the quiz's card from its sample) finds the
\* stored card as it was read: no other operation has written it in between.
C13_NoWriteFromStaleRead ==
    [][/\ out'.op = "reminder" =>
             \A k \in 1..Len(sw.packets[sw.idx]) :
                 LET c == sw.packets[sw.idx][k]
                 IN  \E d \in CardsWithId(table[sw.idx].flashcard_set, c.id) :
                        c = Reminded(d, sw.current_time)
       /\ \A s \in Sessions : RatingBy(s) =>
             LET c == quiz[s].list[quiz[s].index + 1]
             IN  \E d \in CardsWithId(table[quiz[s].user].flashcard_set, c.id) : d = c]_vars

\* C14: every stored card's times_studied is the number of ratings processed
\* for the card since it was added.
C14_TimesStudiedCountsRatings ==
    \A u \in Users : \A k \in 1..Len(table[u].flashcard_set) :
        LET c == table[u].flashcard_set[k]
        IN  c.times_studied = used.ratings[u][c.id]

\* C15: a stored card with to_review true has a last_reviewed, was found due by
\* a sweep (its last_reminded is a sweep's time with last_reminded -
\* last_reviewed >= interval) and holds every rating processed for it, so no
\* rating came after that sweep's scan.
C15_FlaggedMeansDueAndUnrated ==
    \A u \in Users : \A k \in 1..Len(table[u].flashcard_set) :
        LET c == table[u].flashcard_set[k]
        IN  c.to_review =>
               /\ c.last_reviewed # None
               /\ c.last_reminded # None
               /\ c.last_reminded - c.last_reviewed >= c.interval
               /\ c.times_studied = used.ratings[u][c.id]

\* C17: when the sweep's work for one user fails, the sweep goes on with the
\* next user who has a packet to be delivered, and the task stays able to run
\* its later passes.
C17_FailureSparesOtherUsers ==
    [][out'.op = "sweep_raised" =>
          LET i == NextAwait(sw.idx + 1, sw.packets, sw.notifications)
          IN  /\ sw'.pc # "failed"
              /\ i <= NumUsers => (sw'.pc = "await" /\ sw'.idx = i)]_vars

\* C17 witness: the delivery to one user has failed in a pass in which a later
\* user has a packet to be delivered.
C17_Witness_UserSkipped ==
    /\ sw.pc = "failed"
    /\ \E v \in Users : v > sw.idx /\ sw.notifications[v] /\ sw.packets[v] # <<>>

\* user u's stored card id holds n ratings, is not flagged, and is due now
DueUnflagged(u, id, n) ==
    /\ used.ratings[u][id] = n
    /\ \E c \in CardsWithId(table[u].flashcard_set, id) :
          /\ ~c.to_review /\ c.last_reviewed # None
          /\ now - c.last_reviewed >= c.interval

\* user u's stored card id is flagged, or has been rated since it held n ratings
FlaggedOrRatedAgain(u, id, n) ==
    \/ used.ratings[u][id] # n
    \/ \E c \in CardsWithId(table[u].flashcard_set, id) : c.to_review

\* C16: while the task keeps running, a rated card whose interval has elapsed
\* is eventually stored with to_review true, unless it is rated again first.
C16_RatedEventuallyFlagged ==
    \A u \in Users : \A id \in CardIds : \A n \in 1..(MaxQuizzes + 1) :
        DueUnflagged(u, id, n) ~> FlaggedOrRatedAgain(u, id, n)

\* the step is user u's answer to the label prompt
LabelAnswerBy(u) ==
    fl[u].pc = "shown" /\ out'.user = u /\ out'.op \in {"labeled", "label_raised", "label_error"}

\* the step is user u's answer to the delete prompt
DeleteAnswerBy(u) ==
    fl[u].pc = "shown" /\ out'.user = u /\ out'.op \in {"deleted", "delete_raised", "delete_error"}

\* some number or range endpoint of the parts lies outside 1..n
OutOfBounds(parts, n) ==
    \E k \in 1..Len(parts) : \E j \in 1..Len(parts[k]) : parts[k][j] < 1 \/ parts[k][j] > n

\* the ids of the cards displayed at the positions the parts name
NamedIds(shown, parts) ==
    LET numbers == ParseParts(parts, Len(shown)).flashcard_numbers
    IN  {shown[numbers[k]] : k \in 1..Len(numbers)}

\* C18: an answer to the label prompt whose positions all lie within the list
\* shown sets the label on the cards displayed at those positions, and changes
\* no other card.
C18_LabelsDisplayedPositions ==
    [][\A u \in Users :
          (LabelAnswerBy(u) /\ ~OutOfBounds(out'.input, Len(fl[u].shown))
             /\ NamedIds(fl[u].shown, out'.input) # {}) =>
              LET flashcard_set == table[u].flashcard_set
              IN  table'[u].flashcard_set =
                     [p \in 1..Len(flashcard_set) |->
                         IF flashcard_set[p].id \in NamedIds(fl[u].shown, out'.input)
                         THEN [flashcard_set[p] EXCEPT !.label = out'.label]
                         ELSE flashcard_set[p]]]_vars

\* C19: an answer to the label prompt with a number or range endpoint outside
\* 1..N is rejected whole: the table is unchanged and the error message is sent.
C19_LabelOutOfBoundsRejected ==
    [][\A u \in Users :
          (LabelAnswerBy(u) /\ OutOfBounds(out'.input, Len(fl[u].shown))) =>
              /\ table' = table
              /\ out'.op = "label_error"]_vars

\* C19 witness: the input "1, N+1" (one position of the list, one past its
\* end) has been rejected for a user who holds cards.
C19_Witness_MixedRejected ==
    /\ out.op = "label_error"
    /\ out.input = <<<<1>>, <<NumCardIds + 1>>>>
    /\ table[out.user].flashcard_set # <<>>

\* C20: an answer to the delete prompt with a number or range endpoint outside
\* 1..N issues no delete, leaves the table unchanged and gets the error message.
C20_DeleteOutOfBoundsRejected ==
    [][\A u \in Users :
          (DeleteAnswerBy(u) /\ OutOfBounds(out'.input, Len(fl[u].shown))) =>
              /\ table' = table
              /\ out'.op = "delete_error"]_vars

\* the names of the badges stored for user u
Earned(u) == {table[u].badges[k] : k \in 1..Len(table[u].badges)}

\* C22: whatever quiz sessions run and however they interleave, no badge is
\* awarded to a user more than once (add_badge_to_badges and the message
\* "earned a new badge" happen at most once per user and badge), and a badge
\* among a user's earned badges stays there.
C22_BadgeAwardedAtMostOnce ==
    [][\A u \in Users :
          /\ \A b \in 1..Len(BadgeData) : used'.awards[u][b] <= 1
          /\ \A k \in 1..Len(table[u].badges) :
                 \E j \in 1..Len(table'[u].badges) :
                    table'[u].badges[j] = table[u].badges[k]]_vars

\* the step ends the badge check of quiz command s
CheckEnds(s) == quiz[s].pc \in {"ended", "badges"} /\ quiz'[s].pc = "off"

\* the step awards badge b in the badge check of quiz command s
Awards(s, b) ==
    /\ quiz[s].pc \in {"ended", "badges"}
    /\ quiz'[s].pc = "badges"
    /\ quiz'[s].badge = b

\* another quiz command of the same user is between its progress updates and
\* the end of its badge check
OtherCheckPending(s) ==
    \E s2 \in DOMAIN quiz :
       s2 # s /\ quiz[s2].user = quiz[s].user /\ quiz[s2].pc \in {"ended", "badges"}

Counters == {"study_points", "flashcards_studied", "quizzes_completed"}

\* C24: no step (a quiz ended after its last card, by cancel or by timeout, a
\* sweep, an add, the user joining again) lowers study_points,
\* flashcards_studied or quizzes_completed of any user.
C24_CountersNeverDecrease ==
    [][\A u \in Users : \A c \in Counters : table'[u][c] >= table[u][c]]_vars

\* C24 witness: a quiz has just ended that raised all three counters of its user.
C24_Witness_CountersRaised ==
    /\ out.op = "quiz_ended"
    /\ \A c \in Counters : table[out.user][c] > 0

\* the points of a rating, as the rule of the specification gives them
PointsOf(rating) == CASE rating = "Good" -> 3 [] rating = "Okay" -> 1 [] rating = "Poor" -> 0

RECURSIVE SumPoints(_)
SumPoints(ratings) ==
    IF ratings = <<>> THEN 0 ELSE PointsOf(Head(ratings)) + SumPoints(Tail(ratings))

\* the step is a break of quiz command s: a timeout on the front or on the
\* back of a card, or the cancel reaction
BreakBy(s) == quiz[s].pc \in {"front", "back"} /\ quiz'[s].pc = "ended"

\* C25: a quiz prompt that times out ends the session; the stored cards, with
\* the scheduling state the ratings of the session gave them, are left as they
\* are, flashcards_studied grows by the number of ratings processed and
\* study_points by their points, and quizzes_completed does not change.
C25_TimeoutKeepsProgress ==
    [][\A s \in DOMAIN quiz :
          BreakBy(s) =>
             LET u == quiz[s].user
             IN  /\ table'[u].flashcard_set = table[u].flashcard_set
                 /\ table'[u].flashcards_studied =
                        table[u].flashcards_studied + Len(quiz[s].ratings)
                 /\ table'[u].study_points =
                        table[u].study_points + SumPoints(quiz[s].ratings)
                 /\ table'[u].quizzes_completed = table[u].quizzes_completed]_vars

\* C25 witness: a quiz of two cards has ended on the second card's prompt after
\* the first card was rated Good: one card studied, 3 points, no quiz
\* completed, and card 1 stored as the rating left it.
C25_Witness_BrokenAfterOneRating ==
    /\ out.op = "quiz_ended"
    /\ table[out.user].quizzes_completed = 0
    /\ table[out.user].flashcards_studied = 1
    /\ table[out.user].study_points = 3
    /\ table[out.user].flashcard_set[1].times_studied = 2
    /\ table[out.user].flashcard_set[1].interval = 30
    /\ ~table[out.user].flashcard_set[1].to_review

\* the stored card of user u with the given id
StoredIn(t, u, id) ==
    LET at == {k \in 1..Len(t[u].flashcard_set) : t[u].flashcard_set[k].id = id}
    IN  t[u].flashcard_set[CHOOSE k \in at : TRUE]

\* the step is a rating of the card on show in quiz command s
RatingStepBy(s) == quiz[s].pc = "back" /\ quiz'[s].pc \in {"front", "sleep", "off"}

\* C26: a rating whose persist step succeeds stores the card's new interval,
\* its new flag and date and its times_studied + 1 in one write; a rating whose
\* persist step fails leaves the stored card (and the whole table) as it was.
C26_RatingCommitsTogether ==
    [][\A s \in DOMAIN quiz :
          RatingStepBy(s) =>
             LET q == quiz[s]
                 flashcard == q.list[q.index + 1]
             IN  IF out'.op = "quiz_raised"
                 THEN table' = table
                 ELSE LET rating == quiz'[s].ratings[Len(quiz'[s].ratings)]
                          rated == to_dict(process_rating(from_dict(flashcard), rating, now))
                          stored == StoredIn(table', q.user, flashcard.id)
                      IN  /\ stored.times_studied = flashcard.times_studied + 1
                          /\ stored.interval = rated.interval
                          /\ stored.learning_phase = rated.learning_phase
                          /\ stored.last_reviewed = now
                          /\ ~stored.to_review]_vars

\* C26 witness: the persist step of a rating has just failed for a user one of
\* whose earlier ratings was stored.
C26_Witness_PersistFailed ==
    /\ out.op = "quiz_raised"
    /\ \E id \in CardIds : used.ratings[out.user][id] >
                                (IF id = 1 THEN 1 ELSE 2)

\* the step ends quiz command s: by break, or after the rating of its last card
EndBy(s) == quiz[s].pc \in {"front", "back", "sleep"} /\ quiz'[s].pc = "ended"

\* C27: a rating earns 3 points for Good, 1 for Okay and 0 for Poor whatever
\* the phase and the interval of the card, and the end of a quiz session adds
\* to the user's study_points exactly the sum of the points of the ratings the
\* session processed.
C27_PointsOfRatings ==
    [][\A s \in DOMAIN quiz :
          /\ (RatingStepBy(s) /\ out'.op # "quiz_raised") =>
                quiz'[s].points_earned =
                   quiz[s].points_earned + PointsOf(quiz'[s].ratings[Len(quiz'[s].ratings)])
          /\ EndBy(s) =>
                table'[quiz[s].user].study_points =
                   table[quiz[s].user].study_points + SumPoints(quiz[s].ratings)]_vars

\* C27 witness: a quiz of a Learning-phase card rated Okay and a Review-phase
\* card rated Good has ended with 4 points added.
C27_Witness_OkayAndGood ==
    /\ out.op = "quiz_ended"
    /\ table[out.user].study_points = 4
    /\ table[out.user].quizzes_completed = 1
    /\ table[out.user].flashcard_set[1].interval = 10
    /\ table[out.user].flashcard_set[2].interval = 315

\* the step is a quiz command of user u starting (or finding nothing to study)
QuizCommandBy(s, u) ==
    /\ quiz[s].pc = "off"
    /\ out'.user = u
    /\ out'.num_cards >= 1
    /\ out'.op \in {"quiz_started", "no_flashcards"}
    /\ used'.quizzes # used.quizzes
    /\ \A s2 \in DOMAIN quiz : s2 # s => quiz'[s2] = quiz[s2]

\* the stored cards of user u that pass the filters given (-r: flagged for review)
Filtered(u, filters) ==
    SelectSeq(table[u].flashcard_set, LAMBDA d : "-r" \in filters => d.to_review)

\* C29: get_random_flashcards(n, filters), called by a quiz command, returns
\* min(n, k) cards of the filtered list of size k, no card twice, and leaves the
\* table as it was.
C29_SampleMinDistinctFromFiltered ==
    [][\A s \in DOMAIN quiz, u \in Users :
          QuizCommandBy(s, u) =>
             LET filtered == Filtered(u, out'.filters)
                 flashcard_list == quiz'[s].list
             IN  /\ Len(flashcard_list) = Min(out'.num_cards, Len(filtered))
                 /\ \A a, b \in 1..Len(flashcard_list) :
                        a # b => flashcard_list[a].id # flashcard_list[b].id
                 /\ \A a \in 1..Len(flashcard_list) :
                        \E k \in 1..Len(filtered) : filtered[k] = flashcard_list[a]
                 /\ table' = table]_vars

\* C29 witness: a quiz of one card has started for a user who holds two cards,
\* and the card drawn is the second of the set.
C29_Witness_OneOfTwo ==
    /\ out.op = "quiz_started"
    /\ out.num_cards = 1
    /\ out.filters = {}
    /\ Len(table[out.user].flashcard_set) = 2
    /\ \E s \in DOMAIN quiz :
          /\ quiz[s].pc = "front" /\ quiz[s].user = out.user /\ quiz[s].index = 0
          /\ quiz[s].list = <<table[out.user].flashcard_set[2]>>

\* C30: a quiz command whose filtered set is empty answers that there are no
\* flashcards and ends: no session runs (no card is shown or rated, no badge
\* check follows), and no card, counter or badge is changed.
C30_NothingToStudy ==
    [][\A s \in DOMAIN quiz, u \in Users :
          (QuizCommandBy(s, u) /\ Filtered(u, out'.filters) = <<>>) =>
             /\ out'.op = "no_flashcards"
             /\ quiz' = quiz
             /\ table' = table
             /\ used'.awards = used.awards
             /\ used'.ratings = used.ratings]_vars

\* C30 witness: quiz -r has found nothing to study for a user who holds cards,
\* none of them flagged.
C30_Witness_NoneFlagged ==
    /\ out.op = "no_flashcards"
    /\ out.num_cards >= 1
    /\ "-r" \in out.filters
    /\ table[out.user].flashcard_set # <<>>

\* C28: the list the filter loop returns holds exactly the cards of the list
\* given that satisfy every filter, in the order of the list given; with no
\* filter it is the list given.
C28_FiltersConjunctionInOrder ==
    (call.fn = "filter" /\ call.done) =>
        /\ call.result =
              SelectSeq(call.cards,
                        LAMBDA d : \A k \in 1..Len(call.filters) :
                           LET f == call.filters[k]
                               holds == IF f.path = "label" THEN d.label = f.value
                                        ELSE d.to_review = f.value
                           IN  IF f.operation = "!=" THEN ~holds ELSE holds)
        /\ call.filters = <<>> => call.result = call.cards

\* C28 witness: of three cards, the first and the third pass the two filters
\* -r and (!animals) and are returned in this order.
C28_Witness_FirstAndThird ==
    /\ call.fn = "filter"
    /\ call.done
    /\ call.filters = <<ToReviewFilter, LabelFilter("animals", "!=")>>
    /\ Len(call.cards) = 3
    /\ call.result = <<call.cards[1], call.cards[3]>>

\* the positions a list of numbers and start-end ranges names
Named(parts) ==
    UNION {IF Len(parts[k]) = 2 THEN parts[k][1]..parts[k][2] ELSE {parts[k][1]} :
              k \in 1..Len(parts)}

\* C21: a label followed by a space and by numbers and start-end ranges,
\* separated by a comma or a comma and a space, all within 1..N, parses to that
\* label and to exactly the positions named, every range with both its ends;
\* with a number or range end outside 1..N (animals 25 on 20 cards) the input
\* is rejected.
C21_LabelInputParses ==
    (call.fn = "parse_label_input" /\ call.done) =>
        IF OutOfBounds(call.parts, call.max_num_flashcards)
        THEN call.result.none
        ELSE /\ ~call.result.none
             /\ call.result.label = call.label
             /\ {call.result.flashcard_numbers[k] :
                    k \in 1..Len(call.result.flashcard_numbers)} = Named(call.parts)

\* C21 witness: "animals 4, 15, 20, 6-13" on 20 cards has been parsed to the
\* label animals and the positions 4, 6..13, 15 and 20.
C21_Witness_ScenarioE ==
    /\ call.fn = "parse_label_input"
    /\ call.done
    /\ call.max_num_flashcards = 20
    /\ call.input_string =
          <<"a", "n", "i", "m", "a", "l", "s", " ", "4", ",", " ", "1", "5", ",", " ",
            "2", "0", ",", " ", "6", "-", "1", "3">>
    /\ call.result.label = <<"a", "n", "i", "m", "a", "l", "s">>
    /\ {call.result.flashcard_numbers[k] :
           k \in 1..Len(call.result.flashcard_numbers)} = {4, 15, 20} \cup (6..13)

\* C31: a rating in an inverted quiz finds invert applied twice to be the
\* identity on the card's object, and stores the card with the front and the
\* back the sampled card had when the session began.
C31_InvertRestores ==
    [][\A s \in DOMAIN quiz :
          (RatingStepBy(s) /\ quiz[s].inverted /\ out'.op # "quiz_raised") =>
             LET q == quiz[s]
                 flashcard == q.list[q.index + 1]
                 flashcard_object == from_dict(flashcard)
                 stored == StoredIn(table', q.user, flashcard.id)
             IN  /\ invert(invert(flashcard_object)) = flashcard_object
                 /\ stored.front = flashcard.front
                 /\ stored.back = flashcard.back]_vars

\* C31 witness: an inverted quiz of one card has rated its card, which is
\* stored with its second rating and its Korean front.
C31_Witness_InvertedRated ==
    \E s \in DOMAIN quiz :
       /\ quiz[s].inverted /\ quiz[s].pc = "sleep" /\ quiz[s].index = 1
       /\ LET stored == StoredIn(table, quiz[s].user, quiz[s].list[1].id)
          IN  /\ stored.times_studied = 2
              /\ stored.front = <<"ko", 1>>
              /\ stored.back = <<"en", 1>>

\* the step is the end of the 60 seconds of user u's label or delete prompt
\* with nothing received
PromptTimeoutBy(u) ==
    fl[u].pc = "shown" /\ out'.user = u /\ out'.op \in {"prompt_timeout", "prompt_raised"}

\* C32: when the 60 seconds of the label or delete prompt pass with neither a
\* message nor a cancel reaction, the command ends without an error, and no
\* card is labelled or deleted.
C32_PromptTimeoutGraceful ==
    [][\A u \in Users :
          PromptTimeoutBy(u) =>
             /\ out'.op = "prompt_timeout"
             /\ table' = table]_vars

\* the ids of the cards of a stored set
IdsOf(flashcard_set) == {flashcard_set[k].id : k \in 1..Len(flashcard_set)}

\* C33: every update_flashcard call, from a quiz rating or from the sweep's
\* packet, is made with a card whose id is in the user's stored set at that
\* moment; so no step but an add puts into a set an id the set did not hold.
C33_UpdateTargetsPresentCard ==
    [][/\ \A s \in DOMAIN quiz :
             (RatingStepBy(s) /\ out'.op # "quiz_raised") =>
                quiz[s].list[quiz[s].index + 1].id
                   \in IdsOf(table[quiz[s].user].flashcard_set)
       /\ out'.op = "reminder" =>
             \A k \in 1..Len(sw.packets[sw.idx]) :
                sw.packets[sw.idx][k].id \in IdsOf(table[sw.idx].flashcard_set)
       /\ \A u \in Users :
             out'.op # "added" =>
                IdsOf(table'[u].flashcard_set) \subseteq IdsOf(table[u].flashcard_set)]_vars

\* C34: a rating that is stored changes the spaced-repetition fields of its
\* card only: the stored card has the label, the front and the back after the
\* write that it had before.
C34_RatingKeepsLabelAndFaces ==
    [][\A s \in DOMAIN quiz :
          (RatingStepBy(s) /\ out'.op # "quiz_raised") =>
             LET u == quiz[s].user
                 id == quiz[s].list[quiz[s].index + 1].id
             IN  \A before \in CardsWithId(table[u].flashcard_set, id) :
                    \A after \in CardsWithId(table'[u].flashcard_set, id) :
                       /\ after.label = before.label
                       /\ after.front = before.front
                       /\ after.back = before.back]_vars

\* C35: an add leaves every card that is in the user's set before it with its
\* interval, learning_phase, times_studied, last_reviewed, to_review and label,
\* also when the card added has the id of a card of the set.
C35_AddKeepsExistingCards ==
    [][used'.adds = used.adds + 1 =>
          \A k \in 1..Len(table[out'.user].flashcard_set) :
              LET c == table[out'.user].flashcard_set[k]
              IN  \E d \in CardsWithId(table'[out'.user].flashcard_set, c.id) :
                     /\ d.interval = c.interval
                     /\ d.learning_phase = c.learning_phase
                     /\ d.times_studied = c.times_studied
                     /\ d.last_reviewed = c.last_reviewed
                     /\ d.to_review = c.to_review
                     /\ d.label = c.label]_vars

\* C36: a stored card with no last_reviewed is never flagged to_review, and no
\* pass of the sweep puts a card that has no last_reviewed into a packet.
C36_UnratedNeverFlagged ==
    /\ [](\A u \in Users : \A k \in 1..Len(table[u].flashcard_set) :
             table[u].flashcard_set[k].last_reviewed = None
                => ~table[u].flashcard_set[k].to_review)
    /\ [][SweepStarts =>
             \A u \in Users :
                /\ \A k \in 1..Len(table[u].flashcard_set) :
                      table[u].flashcard_set[k].last_reviewed = None
                         => table[u].flashcard_set[k].id \notin PacketIds(sw'.packets[u])
                /\ \A k \in 1..Len(sw'.packets[u]) :
                      sw'.packets[u][k].last_reviewed # None]_vars

\* C36 witness: a pass at a time when INITIAL_INTERVAL has elapsed has put a
\* rated card of a user into the packet and has passed over a never rated card
\* of the same user, which is stored unflagged.
C36_Witness_UnratedPassedOver ==
    /\ sw.pc = "await"
    /\ sw.current_time >= INITIAL_INTERVAL
    /\ \E k \in 1..Len(table[sw.idx].flashcard_set) :
          LET c == table[sw.idx].flashcard_set[k]
          IN  /\ c.last_reviewed = None
              /\ ~c.to_review
              /\ c.id \notin PacketIds(sw.packets[sw.idx])

\* the step is made for user u: a command or reaction of u answered, a
\* reminder to u, or a step of a quiz command that u started
ActsFor(u) ==
    \/ out'.user = u
    \/ \E s \in DOMAIN quiz : quiz[s].user = u /\ quiz'[s] # quiz[s]

\* C37: a step made for one user (an add, a rating, a label, a delete, the
\* progress updates, a badge award, the sweep's writes for that user) leaves
\* the item of every other user, with its card set, counters, badges and
\* preferences, as it was.
C37_OtherUsersUntouched ==
    [][\A u \in Users : table'[u] # table[u] => ActsFor(u)]_vars

\* C37 witness: a quiz of user 1 has just ended and raised user 1's counters,
\* while user 2 holds a card and has the counters of a new user.
C37_Witness_QuizBesideOtherUser ==
    /\ out.op = "quiz_ended" /\ out.user = 1
    /\ table[1].quizzes_completed = 1
    /\ table[1].flashcards_studied = 1
    /\ table[2].flashcard_set # <<>>
    /\ progress(table[2]) = NoProgress

\* C38: the end of a quiz session raises quizzes_completed by 1 when every
\* sampled card was rated and leaves it unchanged when the session was ended by
\* cancel or timeout before the last rating; in both cases flashcards_studied
\* grows by the number of cards rated.
C38_CompletedIffAllRated ==
    [][\A s \in DOMAIN quiz :
          EndBy(s) =>
             LET u == quiz[s].user
                 all_rated == Len(quiz[s].ratings) = Len(quiz[s].list)
             IN  /\ table'[u].quizzes_completed =
                        table[u].quizzes_completed + (IF all_rated THEN 1 ELSE 0)
                 /\ table'[u].flashcards_studied =
                        table[u].flashcards_studied + Len(quiz[s].ratings)
                 /\ all_rated <=> quiz[s].pc = "sleep"]_vars

\* C38 witness: a user has completed one quiz of two cards and has ended
\* another after one rating: one quiz completed, three cards studied.
C38_Witness_OneCompletedOneBroken ==
    \E u \in Users :
       /\ \A s \in DOMAIN quiz : quiz[s].user # u
       /\ table[u].quizzes_completed = 1
       /\ table[u].flashcards_studied = 3

\* quiz command s waits on the front of a card, on its back, or in the sleep
\* after its last rating
InSession(s) == quiz[s].pc \in {"front", "back", "sleep"}

\* C39: every quiz session ends.  A card's back is shown only after its front
\* and a rating is taken only on the back; a rating moves the index on by one;
\* the ratings of a session are never more than its sampled cards; and a
\* session that waits is eventually over (its waits are answered or time out).
C39_SessionEnds ==
    /\ [][\A s \in BadgeSessions :
             /\ quiz'[s].pc = "back" /\ quiz[s].pc # "back" => quiz[s].pc = "front"
             /\ (RatingStepBy(s) /\ out'.op # "quiz_raised") =>
                   /\ quiz'[s].index = quiz[s].index + 1
                   /\ Len(quiz'[s].ratings) = Len(quiz[s].ratings) + 1]_vars
    /\ [](\A s \in BadgeSessions :
             InSession(s) =>
                /\ quiz[s].index = Len(quiz[s].ratings)
                /\ quiz[s].index <= Len(quiz[s].list)
                /\ quiz[s].pc \in {"front", "back"} => quiz[s].index < Len(quiz[s].list))
    /\ \A s \in BadgeSessions : InSession(s) ~> ~InSession(s)

\* C39 witness: a quiz of two cards is over after both were rated, its badge
\* check still to come.
C39_Witness_TwoCardsRated ==
    \E s \in BadgeSessions :
       /\ quiz[s].pc = "ended"
       /\ out.op = "quiz_ended"
       /\ table[out.user].quizzes_completed = 1
       /\ table[out.user].flashcards_studied = 2

\* C40: add_user, called for a user who is in the table, leaves the user's
\* item (counters, badges, preferences, card set) as it is: so it does for
\* every item the table comes to hold, and a ready event, which calls it for
\* every member, changes nothing in the table.
C40_AddUserIdempotent ==
    /\ [](\A u \in Users : add_user(table[u]) = table[u])
    /\ [][out'.op = "ready" => table' = table]_vars

\* C40 witness: the bot has been made ready again while a user holds a rated
\* card, points, a completed quiz and a badge.
C40_Witness_ReadyAgain ==
    /\ out.op = "ready"
    /\ \E u \in Users :
          /\ table[u].quizzes_completed = 1
          /\ table[u].badges # <<>>
          /\ table[u].study_points > 0
          /\ table[u].flashcard_set[1].times_studied = 2

====
